---------------------------- MODULE Spec2Model ----------------------------
(***************************************************************************)
(* Model of the GitHub aggregation core (api/github.ts):                   *)
(*   - fetchCompleteProfile / calculateProfileMetrics (profile scoring),   *)
(*   - analyzeRepositoryHealth (repository health report).                 *)
(*                                                                         *)
(* Conventions.                                                            *)
(*  * A JavaScript string whose characters the code inspects (a repository *)
(*    description, a file name) is the sequence of its UTF-16 code units,  *)
(*    as the language defines it; Str writes one from its characters.      *)
(*    A string the code only tests for truthiness or compares as a whole   *)
(*    (login, bio, blog, language, issue state) is a TLA+ string.          *)
(*  * null is Null for whole strings and NullStr for code-unit sequences.  *)
(*  * A JavaScript number that is a score is the integer ScoreScale times  *)
(*    its value: every division of the scoring code (by 5, 10, 50, 100,    *)
(*    200, 500, 1000) is exact at that scale.  Counts are plain integers.  *)
(*  * Time is counted in whole hours since the epoch.                      *)
(***************************************************************************)
EXTENDS Integers, Sequences, FiniteSets, TLC

---------------------------------------------------------------------------
(* JavaScript values and library functions                                 *)

Null == "<null>"
NullStr == <<-1>>

\* JavaScript truthiness of a string | null value.
Truthy(s) == s # Null /\ s # ""

\* JavaScript truthiness of a code-unit string | null value.
TruthyStr(s) == s # NullStr /\ s # <<>>

\* The printable ASCII characters in the order of their code units, from the
\* space (32) to the tilde (126); the double quote (34), the backslash (92)
\* and the grave accent (96) are not written.
AsciiChars ==
  <<" ","!","","#","$","%","&","'","(",")","*","+",",","-",".","/",
    "0","1","2","3","4","5","6","7","8","9",":",";","<","=",">","?",
    "@","A","B","C","D","E","F","G","H","I","J","K","L","M","N","O",
    "P","Q","R","S","T","U","V","W","X","Y","Z","[","","]","^","_",
    "","a","b","c","d","e","f","g","h","i","j","k","l","m","n","o",
    "p","q","r","s","t","u","v","w","x","y","z","{","|","}","~">>

\* The JavaScript string of the given printable ASCII characters: one code
\* unit each.
Str(text) ==
  [i \in DOMAIN text |->
     31 + CHOOSE k \in DOMAIN AsciiChars : AsciiChars[k] = text[i]]

\* The first and the second code unit of a character outside the basic plane.
highSurrogate(u) == 55296 <= u /\ u <= 56319
lowSurrogate(u) == 56320 <= u /\ u <= 57343

\* Position i of s holds the second code unit of a surrogate pair.
trailing(s, i) == i > 1 /\ lowSurrogate(s[i]) /\ highSurrogate(s[i - 1])

\* String.prototype.codePointAt, on positions from 1: a high surrogate
\* followed by a low one is one code point, any other code unit is its own.
codePointAt(s, i) ==
  IF highSurrogate(s[i]) /\ i < Len(s) /\ lowSurrogate(s[i + 1])
  THEN 65536 + (s[i] - 55296) * 1024 + (s[i + 1] - 56320)
  ELSE s[i]

\* The UTF-16 code units of a code point.
codeUnits(cp) ==
  IF cp < 65536 THEN <<cp>>
  ELSE <<55296 + (cp - 65536) \div 1024, 56320 + ((cp - 65536) % 1024)>>

\* The code point lies in one of the ranges <<first, last>>.
inRanges(cp, ranges) ==
  \E k \in DOMAIN ranges : ranges[k][1] <= cp /\ cp <= ranges[k][2]

\* The simple lower-case mappings of the characters outside ASCII (Unicode
\* Character Database, UnicodeData.txt, version 17.0): <<first, last, step,
\* delta>> maps first, first + step, ... up to last each to itself + delta.
\* U+0130 is not in the table: it has a mapping to two characters.
LowerOf ==
  <<
    <<192, 214, 1, 32>>, <<216, 222, 1, 32>>, <<256, 302, 2, 1>>,
    <<306, 310, 2, 1>>, <<313, 327, 2, 1>>, <<330, 374, 2, 1>>,
    <<376, 376, 1, -121>>, <<377, 381, 2, 1>>, <<385, 385, 1, 210>>,
    <<386, 388, 2, 1>>, <<390, 390, 1, 206>>, <<391, 391, 1, 1>>,
    <<393, 394, 1, 205>>, <<395, 395, 1, 1>>, <<398, 398, 1, 79>>,
    <<399, 399, 1, 202>>, <<400, 400, 1, 203>>, <<401, 401, 1, 1>>,
    <<403, 403, 1, 205>>, <<404, 404, 1, 207>>, <<406, 406, 1, 211>>,
    <<407, 407, 1, 209>>, <<408, 408, 1, 1>>, <<412, 412, 1, 211>>,
    <<413, 413, 1, 213>>, <<415, 415, 1, 214>>, <<416, 420, 2, 1>>,
    <<422, 422, 1, 218>>, <<423, 423, 1, 1>>, <<425, 425, 1, 218>>,
    <<428, 428, 1, 1>>, <<430, 430, 1, 218>>, <<431, 431, 1, 1>>,
    <<433, 434, 1, 217>>, <<435, 437, 2, 1>>, <<439, 439, 1, 219>>,
    <<440, 440, 1, 1>>, <<444, 444, 1, 1>>, <<452, 452, 1, 2>>,
    <<453, 453, 1, 1>>, <<455, 455, 1, 2>>, <<456, 456, 1, 1>>,
    <<458, 458, 1, 2>>, <<459, 475, 2, 1>>, <<478, 494, 2, 1>>,
    <<497, 497, 1, 2>>, <<498, 500, 2, 1>>, <<502, 502, 1, -97>>,
    <<503, 503, 1, -56>>, <<504, 542, 2, 1>>, <<544, 544, 1, -130>>,
    <<546, 562, 2, 1>>, <<570, 570, 1, 10795>>, <<571, 571, 1, 1>>,
    <<573, 573, 1, -163>>, <<574, 574, 1, 10792>>, <<577, 577, 1, 1>>,
    <<579, 579, 1, -195>>, <<580, 580, 1, 69>>, <<581, 581, 1, 71>>,
    <<582, 590, 2, 1>>, <<880, 882, 2, 1>>, <<886, 886, 1, 1>>,
    <<895, 895, 1, 116>>, <<902, 902, 1, 38>>, <<904, 906, 1, 37>>,
    <<908, 908, 1, 64>>, <<910, 911, 1, 63>>, <<913, 929, 1, 32>>,
    <<931, 939, 1, 32>>, <<975, 975, 1, 8>>, <<984, 1006, 2, 1>>,
    <<1012, 1012, 1, -60>>, <<1015, 1015, 1, 1>>, <<1017, 1017, 1, -7>>,
    <<1018, 1018, 1, 1>>, <<1021, 1023, 1, -130>>, <<1024, 1039, 1, 80>>,
    <<1040, 1071, 1, 32>>, <<1120, 1152, 2, 1>>, <<1162, 1214, 2, 1>>,
    <<1216, 1216, 1, 15>>, <<1217, 1229, 2, 1>>, <<1232, 1326, 2, 1>>,
    <<1329, 1366, 1, 48>>, <<4256, 4293, 1, 7264>>, <<4295, 4295, 1, 7264>>,
    <<4301, 4301, 1, 7264>>, <<5024, 5103, 1, 38864>>, <<5104, 5109, 1, 8>>,
    <<7305, 7305, 1, 1>>, <<7312, 7354, 1, -3008>>, <<7357, 7359, 1, -3008>>,
    <<7680, 7828, 2, 1>>, <<7838, 7838, 1, -7615>>, <<7840, 7934, 2, 1>>,
    <<7944, 7951, 1, -8>>, <<7960, 7965, 1, -8>>, <<7976, 7983, 1, -8>>,
    <<7992, 7999, 1, -8>>, <<8008, 8013, 1, -8>>, <<8025, 8031, 2, -8>>,
    <<8040, 8047, 1, -8>>, <<8072, 8079, 1, -8>>, <<8088, 8095, 1, -8>>,
    <<8104, 8111, 1, -8>>, <<8120, 8121, 1, -8>>, <<8122, 8123, 1, -74>>,
    <<8124, 8124, 1, -9>>, <<8136, 8139, 1, -86>>, <<8140, 8140, 1, -9>>,
    <<8152, 8153, 1, -8>>, <<8154, 8155, 1, -100>>, <<8168, 8169, 1, -8>>,
    <<8170, 8171, 1, -112>>, <<8172, 8172, 1, -7>>, <<8184, 8185, 1, -128>>,
    <<8186, 8187, 1, -126>>, <<8188, 8188, 1, -9>>, <<8486, 8486, 1, -7517>>,
    <<8490, 8490, 1, -8383>>, <<8491, 8491, 1, -8262>>,
    <<8498, 8498, 1, 28>>, <<8544, 8559, 1, 16>>, <<8579, 8579, 1, 1>>,
    <<9398, 9423, 1, 26>>, <<11264, 11311, 1, 48>>, <<11360, 11360, 1, 1>>,
    <<11362, 11362, 1, -10743>>, <<11363, 11363, 1, -3814>>,
    <<11364, 11364, 1, -10727>>, <<11367, 11371, 2, 1>>,
    <<11373, 11373, 1, -10780>>, <<11374, 11374, 1, -10749>>,
    <<11375, 11375, 1, -10783>>, <<11376, 11376, 1, -10782>>,
    <<11378, 11378, 1, 1>>, <<11381, 11381, 1, 1>>,
    <<11390, 11391, 1, -10815>>, <<11392, 11490, 2, 1>>,
    <<11499, 11501, 2, 1>>, <<11506, 11506, 1, 1>>, <<42560, 42604, 2, 1>>,
    <<42624, 42650, 2, 1>>, <<42786, 42798, 2, 1>>, <<42802, 42862, 2, 1>>,
    <<42873, 42875, 2, 1>>, <<42877, 42877, 1, -35332>>,
    <<42878, 42886, 2, 1>>, <<42891, 42891, 1, 1>>,
    <<42893, 42893, 1, -42280>>, <<42896, 42898, 2, 1>>,
    <<42902, 42920, 2, 1>>, <<42922, 42922, 1, -42308>>,
    <<42923, 42923, 1, -42319>>, <<42924, 42924, 1, -42315>>,
    <<42925, 42925, 1, -42305>>, <<42926, 42926, 1, -42308>>,
    <<42928, 42928, 1, -42258>>, <<42929, 42929, 1, -42282>>,
    <<42930, 42930, 1, -42261>>, <<42931, 42931, 1, 928>>,
    <<42932, 42946, 2, 1>>, <<42948, 42948, 1, -48>>,
    <<42949, 42949, 1, -42307>>, <<42950, 42950, 1, -35384>>,
    <<42951, 42953, 2, 1>>, <<42955, 42955, 1, -42343>>,
    <<42956, 42970, 2, 1>>, <<42972, 42972, 1, -42561>>,
    <<42997, 42997, 1, 1>>, <<65313, 65338, 1, 32>>, <<66560, 66599, 1, 40>>,
    <<66736, 66771, 1, 40>>, <<66928, 66938, 1, 39>>,
    <<66940, 66954, 1, 39>>, <<66956, 66962, 1, 39>>,
    <<66964, 66965, 1, 39>>, <<68736, 68786, 1, 64>>,
    <<68944, 68965, 1, 32>>, <<71840, 71871, 1, 32>>,
    <<93760, 93791, 1, 32>>, <<93856, 93880, 1, 27>>,
    <<125184, 125217, 1, 34>>
  >>

\* String.prototype.toLowerCase on one code point, but U+0130 and U+03A3,
\* which toLowerCase maps by their own rules.
lowerChar(cp) ==
  IF cp < 128
  THEN IF 65 <= cp /\ cp <= 90 THEN cp + 32 ELSE cp
  ELSE LET rows == {k \in DOMAIN LowerOf :
                      /\ LowerOf[k][1] <= cp
                      /\ cp <= LowerOf[k][2]
                      /\ (cp - LowerOf[k][1]) % LowerOf[k][3] = 0}
       IN IF rows = {} THEN cp ELSE cp + LowerOf[CHOOSE k \in rows : TRUE][4]

\* The ranges of the code points with the property Cased that are not
\* Case_Ignorable (DerivedCoreProperties.txt, version 17.0).
CasedRanges ==
  <<
    <<65, 90>>, <<97, 122>>, <<170, 170>>, <<181, 181>>, <<186, 186>>,
    <<192, 214>>, <<216, 246>>, <<248, 442>>, <<444, 447>>, <<452, 659>>,
    <<662, 687>>, <<880, 883>>, <<886, 887>>, <<891, 893>>, <<895, 895>>,
    <<902, 902>>, <<904, 906>>, <<908, 908>>, <<910, 929>>, <<931, 1013>>,
    <<1015, 1153>>, <<1162, 1327>>, <<1329, 1366>>, <<1376, 1416>>,
    <<4256, 4293>>, <<4295, 4295>>, <<4301, 4301>>, <<4304, 4346>>,
    <<4349, 4351>>, <<5024, 5109>>, <<5112, 5117>>, <<7296, 7306>>,
    <<7312, 7354>>, <<7357, 7359>>, <<7424, 7467>>, <<7531, 7543>>,
    <<7545, 7578>>, <<7680, 7957>>, <<7960, 7965>>, <<7968, 8005>>,
    <<8008, 8013>>, <<8016, 8023>>, <<8025, 8025>>, <<8027, 8027>>,
    <<8029, 8029>>, <<8031, 8061>>, <<8064, 8116>>, <<8118, 8124>>,
    <<8126, 8126>>, <<8130, 8132>>, <<8134, 8140>>, <<8144, 8147>>,
    <<8150, 8155>>, <<8160, 8172>>, <<8178, 8180>>, <<8182, 8188>>,
    <<8450, 8450>>, <<8455, 8455>>, <<8458, 8467>>, <<8469, 8469>>,
    <<8473, 8477>>, <<8484, 8484>>, <<8486, 8486>>, <<8488, 8488>>,
    <<8490, 8493>>, <<8495, 8500>>, <<8505, 8505>>, <<8508, 8511>>,
    <<8517, 8521>>, <<8526, 8526>>, <<8544, 8575>>, <<8579, 8580>>,
    <<9398, 9449>>, <<11264, 11387>>, <<11390, 11492>>, <<11499, 11502>>,
    <<11506, 11507>>, <<11520, 11557>>, <<11559, 11559>>, <<11565, 11565>>,
    <<42560, 42605>>, <<42624, 42651>>, <<42786, 42863>>, <<42865, 42887>>,
    <<42891, 42894>>, <<42896, 42972>>, <<42997, 42998>>, <<43002, 43002>>,
    <<43824, 43866>>, <<43872, 43880>>, <<43888, 43967>>, <<64256, 64262>>,
    <<64275, 64279>>, <<65313, 65338>>, <<65345, 65370>>, <<66560, 66639>>,
    <<66736, 66771>>, <<66776, 66811>>, <<66928, 66938>>, <<66940, 66954>>,
    <<66956, 66962>>, <<66964, 66965>>, <<66967, 66977>>, <<66979, 66993>>,
    <<66995, 67001>>, <<67003, 67004>>, <<68736, 68786>>, <<68800, 68850>>,
    <<68944, 68965>>, <<68976, 68997>>, <<71840, 71903>>, <<93760, 93823>>,
    <<93856, 93880>>, <<93883, 93907>>, <<119808, 119892>>,
    <<119894, 119964>>, <<119966, 119967>>, <<119970, 119970>>,
    <<119973, 119974>>, <<119977, 119980>>, <<119982, 119993>>,
    <<119995, 119995>>, <<119997, 120003>>, <<120005, 120069>>,
    <<120071, 120074>>, <<120077, 120084>>, <<120086, 120092>>,
    <<120094, 120121>>, <<120123, 120126>>, <<120128, 120132>>,
    <<120134, 120134>>, <<120138, 120144>>, <<120146, 120485>>,
    <<120488, 120512>>, <<120514, 120538>>, <<120540, 120570>>,
    <<120572, 120596>>, <<120598, 120628>>, <<120630, 120654>>,
    <<120656, 120686>>, <<120688, 120712>>, <<120714, 120744>>,
    <<120746, 120770>>, <<120772, 120779>>, <<122624, 122633>>,
    <<122635, 122654>>, <<122661, 122666>>, <<125184, 125251>>,
    <<127280, 127305>>, <<127312, 127337>>, <<127344, 127369>>
  >>

\* The ranges of the code points with the property Case_Ignorable
\* (DerivedCoreProperties.txt, version 17.0).
CaseIgnorableRanges ==
  <<
    <<39, 39>>, <<46, 46>>, <<58, 58>>, <<94, 94>>, <<96, 96>>, <<168, 168>>,
    <<173, 173>>, <<175, 175>>, <<180, 180>>, <<183, 184>>, <<688, 879>>,
    <<884, 885>>, <<890, 890>>, <<900, 901>>, <<903, 903>>, <<1155, 1161>>,
    <<1369, 1369>>, <<1375, 1375>>, <<1425, 1469>>, <<1471, 1471>>,
    <<1473, 1474>>, <<1476, 1477>>, <<1479, 1479>>, <<1524, 1524>>,
    <<1536, 1541>>, <<1552, 1562>>, <<1564, 1564>>, <<1600, 1600>>,
    <<1611, 1631>>, <<1648, 1648>>, <<1750, 1757>>, <<1759, 1768>>,
    <<1770, 1773>>, <<1807, 1807>>, <<1809, 1809>>, <<1840, 1866>>,
    <<1958, 1968>>, <<2027, 2037>>, <<2042, 2042>>, <<2045, 2045>>,
    <<2070, 2093>>, <<2137, 2139>>, <<2184, 2184>>, <<2192, 2193>>,
    <<2199, 2207>>, <<2249, 2306>>, <<2362, 2362>>, <<2364, 2364>>,
    <<2369, 2376>>, <<2381, 2381>>, <<2385, 2391>>, <<2402, 2403>>,
    <<2417, 2417>>, <<2433, 2433>>, <<2492, 2492>>, <<2497, 2500>>,
    <<2509, 2509>>, <<2530, 2531>>, <<2558, 2558>>, <<2561, 2562>>,
    <<2620, 2620>>, <<2625, 2626>>, <<2631, 2632>>, <<2635, 2637>>,
    <<2641, 2641>>, <<2672, 2673>>, <<2677, 2677>>, <<2689, 2690>>,
    <<2748, 2748>>, <<2753, 2757>>, <<2759, 2760>>, <<2765, 2765>>,
    <<2786, 2787>>, <<2810, 2815>>, <<2817, 2817>>, <<2876, 2876>>,
    <<2879, 2879>>, <<2881, 2884>>, <<2893, 2893>>, <<2901, 2902>>,
    <<2914, 2915>>, <<2946, 2946>>, <<3008, 3008>>, <<3021, 3021>>,
    <<3072, 3072>>, <<3076, 3076>>, <<3132, 3132>>, <<3134, 3136>>,
    <<3142, 3144>>, <<3146, 3149>>, <<3157, 3158>>, <<3170, 3171>>,
    <<3201, 3201>>, <<3260, 3260>>, <<3263, 3263>>, <<3270, 3270>>,
    <<3276, 3277>>, <<3298, 3299>>, <<3328, 3329>>, <<3387, 3388>>,
    <<3393, 3396>>, <<3405, 3405>>, <<3426, 3427>>, <<3457, 3457>>,
    <<3530, 3530>>, <<3538, 3540>>, <<3542, 3542>>, <<3633, 3633>>,
    <<3636, 3642>>, <<3654, 3662>>, <<3761, 3761>>, <<3764, 3772>>,
    <<3782, 3782>>, <<3784, 3790>>, <<3864, 3865>>, <<3893, 3893>>,
    <<3895, 3895>>, <<3897, 3897>>, <<3953, 3966>>, <<3968, 3972>>,
    <<3974, 3975>>, <<3981, 3991>>, <<3993, 4028>>, <<4038, 4038>>,
    <<4141, 4144>>, <<4146, 4151>>, <<4153, 4154>>, <<4157, 4158>>,
    <<4184, 4185>>, <<4190, 4192>>, <<4209, 4212>>, <<4226, 4226>>,
    <<4229, 4230>>, <<4237, 4237>>, <<4253, 4253>>, <<4348, 4348>>,
    <<4957, 4959>>, <<5906, 5908>>, <<5938, 5939>>, <<5970, 5971>>,
    <<6002, 6003>>, <<6068, 6069>>, <<6071, 6077>>, <<6086, 6086>>,
    <<6089, 6099>>, <<6103, 6103>>, <<6109, 6109>>, <<6155, 6159>>,
    <<6211, 6211>>, <<6277, 6278>>, <<6313, 6313>>, <<6432, 6434>>,
    <<6439, 6440>>, <<6450, 6450>>, <<6457, 6459>>, <<6679, 6680>>,
    <<6683, 6683>>, <<6742, 6742>>, <<6744, 6750>>, <<6752, 6752>>,
    <<6754, 6754>>, <<6757, 6764>>, <<6771, 6780>>, <<6783, 6783>>,
    <<6823, 6823>>, <<6832, 6877>>, <<6880, 6891>>, <<6912, 6915>>,
    <<6964, 6964>>, <<6966, 6970>>, <<6972, 6972>>, <<6978, 6978>>,
    <<7019, 7027>>, <<7040, 7041>>, <<7074, 7077>>, <<7080, 7081>>,
    <<7083, 7085>>, <<7142, 7142>>, <<7144, 7145>>, <<7149, 7149>>,
    <<7151, 7153>>, <<7212, 7219>>, <<7222, 7223>>, <<7288, 7293>>,
    <<7376, 7378>>, <<7380, 7392>>, <<7394, 7400>>, <<7405, 7405>>,
    <<7412, 7412>>, <<7416, 7417>>, <<7468, 7530>>, <<7544, 7544>>,
    <<7579, 7679>>, <<8125, 8125>>, <<8127, 8129>>, <<8141, 8143>>,
    <<8157, 8159>>, <<8173, 8175>>, <<8189, 8190>>, <<8203, 8207>>,
    <<8216, 8217>>, <<8228, 8228>>, <<8231, 8231>>, <<8234, 8238>>,
    <<8288, 8292>>, <<8294, 8303>>, <<8305, 8305>>, <<8319, 8319>>,
    <<8336, 8348>>, <<8400, 8432>>, <<11388, 11389>>, <<11503, 11505>>,
    <<11631, 11631>>, <<11647, 11647>>, <<11744, 11775>>, <<11823, 11823>>,
    <<12293, 12293>>, <<12330, 12333>>, <<12337, 12341>>, <<12347, 12347>>,
    <<12441, 12446>>, <<12540, 12542>>, <<40981, 40981>>, <<42232, 42237>>,
    <<42508, 42508>>, <<42607, 42610>>, <<42612, 42621>>, <<42623, 42623>>,
    <<42652, 42655>>, <<42736, 42737>>, <<42752, 42785>>, <<42864, 42864>>,
    <<42888, 42890>>, <<42993, 42996>>, <<43000, 43001>>, <<43010, 43010>>,
    <<43014, 43014>>, <<43019, 43019>>, <<43045, 43046>>, <<43052, 43052>>,
    <<43204, 43205>>, <<43232, 43249>>, <<43263, 43263>>, <<43302, 43309>>,
    <<43335, 43345>>, <<43392, 43394>>, <<43443, 43443>>, <<43446, 43449>>,
    <<43452, 43453>>, <<43471, 43471>>, <<43493, 43494>>, <<43561, 43566>>,
    <<43569, 43570>>, <<43573, 43574>>, <<43587, 43587>>, <<43596, 43596>>,
    <<43632, 43632>>, <<43644, 43644>>, <<43696, 43696>>, <<43698, 43700>>,
    <<43703, 43704>>, <<43710, 43711>>, <<43713, 43713>>, <<43741, 43741>>,
    <<43756, 43757>>, <<43763, 43764>>, <<43766, 43766>>, <<43867, 43871>>,
    <<43881, 43883>>, <<44005, 44005>>, <<44008, 44008>>, <<44013, 44013>>,
    <<64286, 64286>>, <<64434, 64450>>, <<65024, 65039>>, <<65043, 65043>>,
    <<65056, 65071>>, <<65106, 65106>>, <<65109, 65109>>, <<65279, 65279>>,
    <<65287, 65287>>, <<65294, 65294>>, <<65306, 65306>>, <<65342, 65342>>,
    <<65344, 65344>>, <<65392, 65392>>, <<65438, 65439>>, <<65507, 65507>>,
    <<65529, 65531>>, <<66045, 66045>>, <<66272, 66272>>, <<66422, 66426>>,
    <<67456, 67461>>, <<67463, 67504>>, <<67506, 67514>>, <<68097, 68099>>,
    <<68101, 68102>>, <<68108, 68111>>, <<68152, 68154>>, <<68159, 68159>>,
    <<68325, 68326>>, <<68900, 68903>>, <<68942, 68942>>, <<68969, 68973>>,
    <<68975, 68975>>, <<69291, 69292>>, <<69317, 69317>>, <<69370, 69375>>,
    <<69446, 69456>>, <<69506, 69509>>, <<69633, 69633>>, <<69688, 69702>>,
    <<69744, 69744>>, <<69747, 69748>>, <<69759, 69761>>, <<69811, 69814>>,
    <<69817, 69818>>, <<69821, 69821>>, <<69826, 69826>>, <<69837, 69837>>,
    <<69888, 69890>>, <<69927, 69931>>, <<69933, 69940>>, <<70003, 70003>>,
    <<70016, 70017>>, <<70070, 70078>>, <<70089, 70092>>, <<70095, 70095>>,
    <<70191, 70193>>, <<70196, 70196>>, <<70198, 70199>>, <<70206, 70206>>,
    <<70209, 70209>>, <<70367, 70367>>, <<70371, 70378>>, <<70400, 70401>>,
    <<70459, 70460>>, <<70464, 70464>>, <<70502, 70508>>, <<70512, 70516>>,
    <<70587, 70592>>, <<70606, 70606>>, <<70608, 70608>>, <<70610, 70610>>,
    <<70625, 70626>>, <<70712, 70719>>, <<70722, 70724>>, <<70726, 70726>>,
    <<70750, 70750>>, <<70835, 70840>>, <<70842, 70842>>, <<70847, 70848>>,
    <<70850, 70851>>, <<71090, 71093>>, <<71100, 71101>>, <<71103, 71104>>,
    <<71132, 71133>>, <<71219, 71226>>, <<71229, 71229>>, <<71231, 71232>>,
    <<71339, 71339>>, <<71341, 71341>>, <<71344, 71349>>, <<71351, 71351>>,
    <<71453, 71453>>, <<71455, 71455>>, <<71458, 71461>>, <<71463, 71467>>,
    <<71727, 71735>>, <<71737, 71738>>, <<71995, 71996>>, <<71998, 71998>>,
    <<72003, 72003>>, <<72148, 72151>>, <<72154, 72155>>, <<72160, 72160>>,
    <<72193, 72202>>, <<72243, 72248>>, <<72251, 72254>>, <<72263, 72263>>,
    <<72273, 72278>>, <<72281, 72283>>, <<72330, 72342>>, <<72344, 72345>>,
    <<72544, 72544>>, <<72546, 72548>>, <<72550, 72550>>, <<72752, 72758>>,
    <<72760, 72765>>, <<72767, 72767>>, <<72850, 72871>>, <<72874, 72880>>,
    <<72882, 72883>>, <<72885, 72886>>, <<73009, 73014>>, <<73018, 73018>>,
    <<73020, 73021>>, <<73023, 73029>>, <<73031, 73031>>, <<73104, 73105>>,
    <<73109, 73109>>, <<73111, 73111>>, <<73177, 73177>>, <<73459, 73460>>,
    <<73472, 73473>>, <<73526, 73530>>, <<73536, 73536>>, <<73538, 73538>>,
    <<73562, 73562>>, <<78896, 78912>>, <<78919, 78933>>, <<90398, 90409>>,
    <<90413, 90415>>, <<92912, 92916>>, <<92976, 92982>>, <<92992, 92995>>,
    <<93504, 93506>>, <<93547, 93548>>, <<94031, 94031>>, <<94095, 94111>>,
    <<94176, 94177>>, <<94179, 94180>>, <<94194, 94195>>, <<110576, 110579>>,
    <<110581, 110587>>, <<110589, 110590>>, <<113821, 113822>>,
    <<113824, 113827>>, <<118528, 118573>>, <<118576, 118598>>,
    <<119143, 119145>>, <<119155, 119170>>, <<119173, 119179>>,
    <<119210, 119213>>, <<119362, 119364>>, <<121344, 121398>>,
    <<121403, 121452>>, <<121461, 121461>>, <<121476, 121476>>,
    <<121499, 121503>>, <<121505, 121519>>, <<122880, 122886>>,
    <<122888, 122904>>, <<122907, 122913>>, <<122915, 122916>>,
    <<122918, 122922>>, <<122928, 122989>>, <<123023, 123023>>,
    <<123184, 123197>>, <<123566, 123566>>, <<123628, 123631>>,
    <<124139, 124143>>, <<124398, 124399>>, <<124643, 124643>>,
    <<124646, 124646>>, <<124654, 124655>>, <<124661, 124661>>,
    <<124671, 124671>>, <<125136, 125142>>, <<125252, 125259>>,
    <<127995, 127999>>, <<917505, 917505>>, <<917536, 917631>>,
    <<917760, 917999>>
  >>

\* The nearest position before i (step -1) or after i (step 1) whose
\* character is not case-ignorable; 0 when there is none.
RECURSIVE neighbour(_, _, _)
neighbour(s, i, step) ==
  LET j == i + step
  IN IF j < 1 \/ j > Len(s) THEN 0
     ELSE IF trailing(s, j) THEN neighbour(s, j, step)
     ELSE IF inRanges(codePointAt(s, j), CaseIgnorableRanges)
          THEN neighbour(s, IF step = 1 /\ codePointAt(s, j) > 65535
                               THEN j + 1 ELSE j, step)
     ELSE j

\* The condition Final_Sigma of SpecialCasing.txt for a sigma at position i:
\* a cased letter before it, and none after it, case-ignorable characters
\* skipped.
finalSigma(s, i) ==
  LET before == neighbour(s, i, -1)
      after == neighbour(s, i, 1)
  IN /\ before # 0
     /\ inRanges(codePointAt(s, before), CasedRanges)
     /\ after = 0 \/ ~inRanges(codePointAt(s, after), CasedRanges)

\* The lower case of the character that starts at position i of s: U+0130
\* becomes i and a combining dot above, a capital sigma the final or the
\* medial small sigma, any other character its simple mapping.
lowerAt(s, i) ==
  LET cp == codePointAt(s, i)
  IN IF cp = 304 THEN <<105, 775>>
     ELSE IF cp = 931 THEN IF finalSigma(s, i) THEN <<962>> ELSE <<963>>
     ELSE codeUnits(lowerChar(cp))

\* The lower case of the characters of s that start in lo..hi, in order.
RECURSIVE lowerRange(_, _, _)
lowerRange(s, lo, hi) ==
  IF lo > hi THEN <<>>
  ELSE IF lo = hi THEN IF trailing(s, lo) THEN <<>> ELSE lowerAt(s, lo)
  ELSE LET mid == (lo + hi) \div 2
       IN lowerRange(s, lo, mid) \o lowerRange(s, mid + 1, hi)

\* String.prototype.toLowerCase: the locale-insensitive lower case of the
\* Unicode standard, character by character (code unit by code unit when
\* every one is ASCII).
toLowerCase(s) ==
  IF \A i \in DOMAIN s : s[i] < 128
  THEN [i \in DOMAIN s |-> lowerChar(s[i])]
  ELSE lowerRange(s, 1, Len(s))

\* The string literals the code looks for.
Literals ==
  [readme |-> Str(<<"r","e","a","d","m","e">>),
   license |-> Str(<<"l","i","c","e","n","s","e">>),
   licence |-> Str(<<"l","i","c","e","n","c","e">>),
   contributing |-> Str(<<"c","o","n","t","r","i","b","u","t","i","n","g">>),
   code_of_conduct |->
     Str(<<"c","o","d","e","_","o","f","_","c","o","n","d","u","c","t">>),
   code_hyphen_of_conduct |->
     Str(<<"c","o","d","e","-","o","f","-","c","o","n","d","u","c","t">>)]

\* String.prototype.includes.
includes(s, sub) ==
  \E i \in 0..(Len(s) - Len(sub)) : SubSeq(s, i + 1, i + Len(sub)) = sub

\* Math.min.
Min(a, b) == IF a <= b THEN a ELSE b

\* The left fold (sum, repo) => sum + repo[field] over repos[lo..hi] from
\* sum: the fold of the first half, then, from its value, the fold of the
\* second half (the test left = left only makes the first half be evaluated
\* before the second is entered).
RECURSIVE reduceRange(_, _, _, _, _)
reduceRange(repos, field, sum, lo, hi) ==
  IF lo > hi THEN sum
  ELSE IF lo = hi THEN sum + repos[lo][field]
  ELSE LET mid == (lo + hi) \div 2
           left == reduceRange(repos, field, sum, lo, mid)
       IN  IF left = left THEN reduceRange(repos, field, left, mid + 1, hi) ELSE sum

\* repos.reduce((sum, repo) => sum + repo[field], 0).
reduce(repos, field) == reduceRange(repos, field, 0, 1, Len(repos))

\* The scale of score numbers: the JavaScript number x is the integer
\* ScoreScale * x.
ScoreScale == 1000

\* The integer n as a score number.
Num(n) == n * ScoreScale

\* The JavaScript quotient n / d of two counts, as a score number.
Div(n, d) == (n * ScoreScale) \div d

\* The JavaScript product x * w of a score number and an integer weight.
Mul(x, w) == x * w

\* The length of a day (1000 * 60 * 60 * 24 ms) in the model's time unit.
DayLen == 24

---------------------------------------------------------------------------
(* Profile metrics: the pure part of calculateProfileMetrics               *)

fetchUserLanguages_PerRepo(repos) ==
  Cardinality({j \in DOMAIN repos : Truthy(repos[j].language)})

\* fetchUserLanguages: the number of distinct truthy language values.
fetchUserLanguages(repos) ==
  Cardinality({repos[i].language : i \in {j \in DOMAIN repos : Truthy(repos[j].language)}})

calculateReadmeQuality_ForksToo(repos) ==
  LET hasReadme ==
        \E i \in DOMAIN repos :
           /\ repos[i].description # NullStr
           /\ includes(toLowerCase(repos[i].description), Literals.readme)
      hasDetailedDescriptions ==
        Len(SelectSeq(repos, LAMBDA repo :
              TruthyStr(repo.description) /\ Len(repo.description) > 50))
  IN  (IF hasReadme THEN Num(5) ELSE 0) + Min(Div(hasDetailedDescriptions, 5), Num(5))

\* calculateReadmeQuality.
calculateReadmeQuality(repos) ==
  LET hasReadme ==
        LET nonForks == SelectSeq(repos, LAMBDA repo : ~repo.fork)
        IN  \E i \in DOMAIN nonForks :
               /\ nonForks[i].description # NullStr
               /\ includes(toLowerCase(nonForks[i].description),
                           Literals.readme)
      hasDetailedDescriptions ==
        Len(SelectSeq(repos, LAMBDA repo :
              TruthyStr(repo.description) /\ Len(repo.description) > 50))
  IN  (IF hasReadme THEN Num(5) ELSE 0) + Min(Div(hasDetailedDescriptions, 5), Num(5))

calculateAchievementScore_AtLeast(user) ==
  LET s1 == IF user.public_repos > 10 THEN 1 ELSE 0
      s2 == s1 + (IF user.followers >= 50 THEN 1 ELSE 0)
      s3 == s2 + (IF user.public_gists > 5 THEN 1 ELSE 0)
      s4 == s3 + (IF Truthy(user.bio) THEN 1 ELSE 0)
      s5 == s4 + (IF Truthy(user.blog) THEN 1 ELSE 0)
  IN  Num(s5)

\* calculateAchievementScore.
calculateAchievementScore(user) ==
  LET s1 == IF user.public_repos > 10 THEN 1 ELSE 0
      s2 == s1 + (IF user.followers > 50 THEN 1 ELSE 0)
      s3 == s2 + (IF user.public_gists > 5 THEN 1 ELSE 0)
      s4 == s3 + (IF Truthy(user.bio) THEN 1 ELSE 0)
      s5 == s4 + (IF Truthy(user.blog) THEN 1 ELSE 0)
  IN  Num(s5)

calculateCommunityScore_Exclusive(repos) ==
  LET contributedRepos == Len(SelectSeq(repos, LAMBDA repo : repo.fork))
      popularRepos ==
        Len(SelectSeq(repos, LAMBDA repo : ~repo.fork /\ repo.stargazers_count > 10))
  IN  Min(Div(contributedRepos, 10), Num(5)) + Min(Div(popularRepos, 5), Num(5))

calculateCommunityScore_Max(repos) ==
  LET contributedRepos == Len(SelectSeq(repos, LAMBDA repo : repo.fork))
      popularRepos == Len(SelectSeq(repos, LAMBDA repo : repo.stargazers_count > 10))
      Max(a, b) == IF a >= b THEN a ELSE b
  IN  Max(Div(contributedRepos, 10), Num(5)) + Min(Div(popularRepos, 5), Num(5))

\* calculateCommunityScore.
calculateCommunityScore(repos) ==
  LET contributedRepos == Len(SelectSeq(repos, LAMBDA repo : repo.fork))
      popularRepos == Len(SelectSeq(repos, LAMBDA repo : repo.stargazers_count > 10))
  IN  Min(Div(contributedRepos, 10), Num(5)) + Min(Div(popularRepos, 5), Num(5))

\* calculateProfileAgeInDays: Math.ceil(|now - created| / one day).
calculateProfileAgeInDays(createdAt, now) ==
  LET diffTime == IF now >= createdAt THEN now - createdAt ELSE createdAt - now
  IN  (diffTime + DayLen - 1) \div DayLen

scoreTerms_NoCap(user, totalStars, totalForks, languages, contributions, readmeQualityScore, prIssues, achievementScore, communityScore) ==
  << Mul(Div(contributions, 1000), 15),
     Mul(Min(Div(user.public_repos, 50), Num(1)), 10),
     Mul(Min(Div(totalStars, 500), Num(1)), 15),
     Mul(Min(Div(totalForks, 200), Num(1)), 10),
     Mul(Min(Div(languages, 10), Num(1)), 10),
     readmeQualityScore,
     Mul(Min(Div(prIssues, 100), Num(1)), 10),
     Mul(Min(Div(user.followers, 500), Num(1)), 5),
     achievementScore,
     communityScore >>

\* The ten terms of the score expression of calculateProfileMetrics, in
\* the order the code adds them.
scoreTerms(user, totalStars, totalForks, languages, contributions, readmeQualityScore, prIssues, achievementScore, communityScore) ==
  << Mul(Min(Div(contributions, 1000), Num(1)), 15),
     Mul(Min(Div(user.public_repos, 50), Num(1)), 10),
     Mul(Min(Div(totalStars, 500), Num(1)), 15),
     Mul(Min(Div(totalForks, 200), Num(1)), 10),
     Mul(Min(Div(languages, 10), Num(1)), 10),
     readmeQualityScore,
     Mul(Min(Div(prIssues, 100), Num(1)), 10),
     Mul(Min(Div(user.followers, 500), Num(1)), 5),
     achievementScore,
     communityScore >>

calculateProfileMetrics_NoForkStars(user, repos, contributions, prIssues, now) ==
  LET languages == fetchUserLanguages(repos)
      readmeQualityScore == calculateReadmeQuality(repos)
      achievementScore == calculateAchievementScore(user)
      communityScore == calculateCommunityScore(repos)
      totalStars == reduce(SelectSeq(repos, LAMBDA repo : ~repo.fork), "stargazers_count")
      totalForks == reduce(SelectSeq(repos, LAMBDA repo : ~repo.fork), "forks_count")
      t == scoreTerms(user, totalStars, totalForks, languages, contributions,
                      readmeQualityScore, prIssues, achievementScore, communityScore)
      score == t[1] + t[2] + t[3] + t[4] + t[5] + t[6] + t[7] + t[8] + t[9] + t[10]
  IN  [totalStars |-> totalStars, totalForks |-> totalForks,
       followers |-> user.followers, following |-> user.following,
       repositories |-> user.public_repos, languages |-> languages,
       contributions |-> contributions,
       readmeQualityScore |-> readmeQualityScore, prIssues |-> prIssues,
       achievementScore |-> achievementScore, communityScore |-> communityScore,
       profileAge |-> calculateProfileAgeInDays(user.created_at, now),
       totalScore |-> score]

\* calculateProfileMetrics, given the values its awaited sub-fetches
\* produced (contributions, prIssues) and the current time.
calculateProfileMetrics(user, repos, contributions, prIssues, now) ==
  LET languages == fetchUserLanguages(repos)
      readmeQualityScore == calculateReadmeQuality(repos)
      achievementScore == calculateAchievementScore(user)
      communityScore == calculateCommunityScore(repos)
      totalStars == reduce(repos, "stargazers_count")
      totalForks == reduce(repos, "forks_count")
      t == scoreTerms(user, totalStars, totalForks, languages, contributions,
                      readmeQualityScore, prIssues, achievementScore, communityScore)
      score == t[1] + t[2] + t[3] + t[4] + t[5] + t[6] + t[7] + t[8] + t[9] + t[10]
  IN  [totalStars |-> totalStars, totalForks |-> totalForks,
       followers |-> user.followers, following |-> user.following,
       repositories |-> user.public_repos, languages |-> languages,
       contributions |-> contributions,
       readmeQualityScore |-> readmeQualityScore, prIssues |-> prIssues,
       achievementScore |-> achievementScore, communityScore |-> communityScore,
       profileAge |-> calculateProfileAgeInDays(user.created_at, now),
       totalScore |-> score]

---------------------------------------------------------------------------
(* Inputs: what the remote service may answer                              *)

\* The page size fetchUserRepos asks for: the service returns at most
\* that many repositories.
PerPage == 100

\* The largest repository block of a sample account.
MaxBlock == 50

\* The current time of a run, in hours since the epoch: 08:00 on day 20833.
Now == 20833 * DayLen + 8

\* s followed by copies of "x" up to length n.
Pad(s, n) == [i \in 1..n |-> IF i <= Len(s) THEN s[i] ELSE 120]

ShortReadmeDesc == Str(<<"M","y"," ","R","E","A","D","M","E"," ","n","o","t","e","s">>)
PlainDesc50 == Pad(Str(<<"p","l","a","i","n">>), 50)
PlainDesc51 == Pad(Str(<<"p","l","a","i","n">>), 51)
ReadmeDesc51 == Pad(Str(<<"S","e","e"," ","R","e","a","d","M","e",".">>), 51)

\* Sample repository records (the fields the code reads).
RepoKinds ==
  { [fork |-> FALSE, stargazers_count |-> 0, forks_count |-> 0,
     language |-> Null, description |-> NullStr],
    [fork |-> FALSE, stargazers_count |-> 11, forks_count |-> 3,
     language |-> "TypeScript", description |-> ShortReadmeDesc],
    [fork |-> TRUE, stargazers_count |-> 10, forks_count |-> 4,
     language |-> "Go", description |-> ReadmeDesc51],
    [fork |-> TRUE, stargazers_count |-> 300, forks_count |-> 150,
     language |-> Null, description |-> PlainDesc50],
    [fork |-> FALSE, stargazers_count |-> 2, forks_count |-> 1,
     language |-> "Go", description |-> PlainDesc51],
    [fork |-> FALSE, stargazers_count |-> 0, forks_count |-> 0,
     language |-> "Rust", description |-> <<>>] }

LangNames == <<"C", "C++", "Go", "Java", "Kotlin", "Lua", "OCaml", "PHP",
               "Python", "Ruby", "Rust", "Swift">>

\* n copies of the repository record k.
Block(k, n) == [i \in 1..n |-> k]

\* n repositories, each in a language of its own (as far as LangNames goes).
Polyglot(n) ==
  [i \in 1..n |->
     [fork |-> FALSE, stargazers_count |-> 1, forks_count |-> 0,
      language |-> LangNames[((i - 1) % Len(LangNames)) + 1],
      description |-> NullStr]]

\* The repository lists of the sample accounts, as the service holds them.
AccountRepoLists ==
  {Block(k, n) : k \in RepoKinds, n \in {0, 1, 5, 25, MaxBlock}}
  \cup {Polyglot(12)}
  \cup {Block(k1, MaxBlock) \o Polyglot(12) \o Block(k2, MaxBlock) :
          k1 \in RepoKinds, k2 \in {k \in RepoKinds : k.description = ShortReadmeDesc}}

\* The first page of a list: what ?per_page=100 makes the service return.
FirstPage(list) == SubSeq(list, 1, Min(Len(list), PerPage))

\* Sample user records (the fields the code reads).
UserRecords ==
  { [login |-> "octocat", public_repos |-> 0, followers |-> 0, following |-> 0,
     public_gists |-> 0, bio |-> Null, blog |-> "", created_at |-> Now - 1],
    [login |-> "octocat", public_repos |-> 10, followers |-> 51, following |-> 7,
     public_gists |-> 5, bio |-> "dev", blog |-> "https://example.org",
     created_at |-> Now - 49],
    [login |-> "octocat", public_repos |-> 5000, followers |-> 100000,
     following |-> 0, public_gists |-> 900, bio |-> "dev",
     blog |-> "https://example.org", created_at |-> Now + 3] }

\* HTTP statuses the service answers with, and their status texts.
StatusText(status) ==
  CASE status = 200 -> "OK"
    [] status = 403 -> "Forbidden"
    [] status = 404 -> "Not Found"
    [] status = 500 -> "Internal Server Error"

FailureStatuses == {403, 404, 500}

\* A settled fetch(): net = "error" is a rejected fetch (network failure);
\* otherwise a Response with its status, whether its body parses as JSON,
\* the parsed body, and the text of a body that does not parse.
NetworkFailure(empty) ==
  [net |-> "error", status |-> 0, statusText |-> "", parses |-> FALSE,
   json |-> empty, text |-> ""]
HttpFailure(status, empty) ==
  [net |-> "ok", status |-> status, statusText |-> StatusText(status),
   parses |-> TRUE, json |-> empty, text |-> ""]
HttpSuccess(value) ==
  [net |-> "ok", status |-> 200, statusText |-> "OK", parses |-> TRUE,
   json |-> value, text |-> ""]

\* Bodies that are not JSON: a zero-length body, a document cut short and
\* an HTML page.
EmptyBody == ""
TruncatedBody == "{\"a\":"
HtmlBody == "<html>"
BrokenBodies == {EmptyBody, TruncatedBody, HtmlBody}

\* A 200 answer whose body is the text, which is not JSON.
HttpUnreadable(text, empty) ==
  [net |-> "ok", status |-> 200, statusText |-> "OK", parses |-> FALSE,
   json |-> empty, text |-> text]

\* Response.ok.
ok(response) == response.status >= 200 /\ response.status <= 299

ErrorBody == [message |-> "error"]

UserResponses ==
  {HttpSuccess(u) : u \in UserRecords}
  \cup {HttpFailure(s, ErrorBody) : s \in FailureStatuses}
  \cup {HttpUnreadable(text, ErrorBody) : text \in BrokenBodies}
  \cup {NetworkFailure(ErrorBody)}

ReposResponses ==
  {HttpSuccess(FirstPage(l)) : l \in AccountRepoLists}
  \cup {HttpFailure(s, <<>>) : s \in FailureStatuses}
  \cup {HttpUnreadable(HtmlBody, <<>>)}
  \cup {NetworkFailure(<<>>)}

\* The events feed: only its length is read.
EventsResponses ==
  {HttpSuccess(Block("event", n)) : n \in {30, 1200}}
  \cup {HttpFailure(403, <<>>)}
  \cup {NetworkFailure(<<>>)}

\* A search answer: a count, an error document without total_count, or a
\* body that is not JSON.
SearchResponses ==
  {HttpSuccess([total_count |-> n]) : n \in {7, 250}}
  \cup {HttpFailure(403, ErrorBody)}
  \cup {[net |-> "ok", status |-> 500, statusText |-> StatusText(500),
         parses |-> FALSE, json |-> ErrorBody, text |-> HtmlBody]}
  \cup {NetworkFailure(ErrorBody)}

---------------------------------------------------------------------------
(* Errors and requests                                                     *)

\* new Error(message); the message is kept in its parts.
Error(message) == [name |-> "Error", message |-> message]

\* What a rejected fetch() throws (a network failure).
FetchFailed == [name |-> "TypeError", message |-> <<"Failed to fetch">>]

\* What response.json() throws on a body that is not JSON: the parser
\* either runs out of text (nothing but white space, or a document cut
\* short) or meets a character no JSON value has at that place, which the
\* message quotes together with the text of a short body.
JsonFailed(text) ==
  [name |-> "SyntaxError",
   message |->
     CASE text \in {EmptyBody, TruncatedBody} -> <<"Unexpected end of JSON input">>
       [] text = HtmlBody ->
            <<"Unexpected token '<', \"", text, "\" is not valid JSON">>]

NoError == [name |-> "", message |-> <<>>]

\* The outcome of an async function: a value returned or an error thrown.
Returned(value) == [threw |-> FALSE, value |-> value, error |-> NoError]
Threw(error, empty) == [threw |-> TRUE, value |-> empty, error |-> error]

\* A fetch() that has not settled yet.
Pending ==
  [net |-> "pending", status |-> 0, statusText |-> "", parses |-> FALSE,
   json |-> ErrorBody, text |-> ""]

\* The requests of fetchCompleteProfile: method and URL after API_BASE_URL.
UserRequest(username) == <<"GET", "/users/", username>>
ReposRequest(username) ==
  <<"GET", "/users/", username, "/repos?per_page=100&sort=updated">>
EventsRequest(login) == <<"GET", "/users/", login, "/events">>
PrSearchRequest(login) == <<"GET", "/search/issues?q=author:", login, "+type:pr">>
IssueSearchRequest(login) ==
  <<"GET", "/search/issues?q=author:", login, "+type:issue">>

---------------------------------------------------------------------------
(* The fetch helpers of the profile, as functions of the settled fetch     *)

NoUser == [login |-> Null]

fetchUser_NoNotFound(username, response) ==
  IF response.net = "error" THEN Threw(FetchFailed, NoUser)
  ELSE IF ~ok(response)
       THEN Threw(Error(<<"GitHub API error: ", response.statusText>>), NoUser)
  ELSE IF ~response.parses THEN Threw(JsonFailed(response.text), NoUser)
  ELSE Returned(response.json)

\* fetchUser: the catch block logs and rethrows the same error.
fetchUser(username, response) ==
  IF response.net = "error" THEN Threw(FetchFailed, NoUser)
  ELSE IF ~ok(response)
       THEN IF response.status = 404
            THEN Threw(Error(<<"User ", username, " not found">>), NoUser)
            ELSE Threw(Error(<<"GitHub API error: ", response.statusText>>), NoUser)
  ELSE IF ~response.parses THEN Threw(JsonFailed(response.text), NoUser)
  ELSE Returned(response.json)

fetchUserRepos_Swallow(username, response) ==
  IF response.net = "error" \/ ~ok(response) \/ ~response.parses
  THEN Returned(<<>>)
  ELSE Returned(response.json)

\* fetchUserRepos: the catch block logs and rethrows the same error.
fetchUserRepos(username, response) ==
  IF response.net = "error" THEN Threw(FetchFailed, <<>>)
  ELSE IF ~ok(response)
       THEN Threw(Error(<<"GitHub API error: ", response.statusText>>), <<>>)
  ELSE IF ~response.parses THEN Threw(JsonFailed(response.text), <<>>)
  ELSE Returned(response.json)

fetchUserContributions_NoCatch(response) ==
  IF response.net = "error" THEN Threw(FetchFailed, 0)
  ELSE IF ~ok(response) THEN Returned(0)
  ELSE IF ~response.parses THEN Threw(JsonFailed(response.text), 0)
  ELSE Returned(Len(response.json))

\* fetchUserContributions: 0 on a non-2xx answer and on anything thrown.
fetchUserContributions(response) ==
  IF response.net = "error" THEN Returned(0)
  ELSE IF ~ok(response) THEN Returned(0)
  ELSE IF ~response.parses THEN Returned(0)
  ELSE Returned(Len(response.json))

\* body.total_count || 0.
totalCountOrZero(body) ==
  IF "total_count" \in DOMAIN body THEN body.total_count ELSE 0

\* calculatePRsAndIssues, given the two fetches as far as they have settled
\* when Promise.all settles: a rejected fetch or a body that is not JSON
\* lands in the catch block; response.ok is never looked at.
calculatePRsAndIssues(prsResponse, issuesResponse) ==
  IF prsResponse.net = "error" \/ issuesResponse.net = "error" THEN 0
  ELSE IF ~prsResponse.parses \/ ~issuesResponse.parses THEN 0
  ELSE totalCountOrZero(prsResponse.json) + totalCountOrZero(issuesResponse.json)

\* Promise.all over the two search fetches has settled: one has rejected,
\* or both have answered.
searchSettled(prsResponse, issuesResponse) ==
  \/ prsResponse.net = "error"
  \/ issuesResponse.net = "error"
  \/ (prsResponse.net = "ok" /\ issuesResponse.net = "ok")

---------------------------------------------------------------------------
(* analyzeRepositoryHealth: the report computed from the seven values      *)

someNameIncludes_CaseSensitive(contents, keyword) ==
  \E i \in DOMAIN contents : includes(contents[i].name, keyword)

\* contents.some(file => file.name.toLowerCase().includes(keyword)).
someNameIncludes(contents, keyword) ==
  \E i \in DOMAIN contents : includes(toLowerCase(contents[i].name), keyword)

\* The time zones a process may run in: one that never changes its offset,
\* one of the northern and one of the southern hemisphere that change it by
\* an hour, and one that changes it by two.
Zones == {"UTC", "America/New_York", "America/Santiago", "Antarctica/Troll"}

\* Local time minus UTC in each zone, in hours, outside its summer time
\* and during it.
StandardOffset ==
  [zone \in Zones |->
     CASE zone = "America/New_York" -> -5
       [] zone = "America/Santiago" -> -4
       [] OTHER -> 0]
SummerOffset ==
  [zone \in Zones |->
     CASE zone = "America/New_York" -> -4
       [] zone = "America/Santiago" -> -3
       [] zone = "Antarctica/Troll" -> 2
       [] OTHER -> 0]

\* The summer times of each zone from December 2025 to December 2027, each
\* from its first instant to the first instant after it.  New York: 07:00
\* UTC on 8 March 2026 to 06:00 UTC on 1 November 2026, 07:00 UTC on 14
\* March 2027 to 06:00 UTC on 7 November 2027.  Santiago: 04:00 UTC on 7
\* September 2025 to 03:00 UTC on 5 April 2026, 04:00 UTC on 6 September
\* 2026 to 03:00 UTC on 4 April 2027, 04:00 UTC on 5 September 2027 to 03:00
\* UTC on 2 April 2028.  Troll: 01:00 UTC on 29 March 2026 to 01:00 UTC on
\* 25 October 2026, 01:00 UTC on 28 March 2027 to 01:00 UTC on 31 October
\* 2027.
SummerTimes ==
  [zone \in Zones |->
     CASE zone = "America/New_York" ->
            { <<20520 * DayLen + 7, 20758 * DayLen + 6>>,
              <<20891 * DayLen + 7, 21129 * DayLen + 6>> }
       [] zone = "America/Santiago" ->
            { <<20338 * DayLen + 4, 20548 * DayLen + 3>>,
              <<20702 * DayLen + 4, 20912 * DayLen + 3>>,
              <<21066 * DayLen + 4, 21276 * DayLen + 3>> }
       [] zone = "Antarctica/Troll" ->
            { <<20541 * DayLen + 1, 20751 * DayLen + 1>>,
              <<20905 * DayLen + 1, 21122 * DayLen + 1>> }
       [] OTHER -> {}]

\* Local time minus UTC at the instant t, in hours.
utcOffset(zone, t) ==
  IF \E span \in SummerTimes[zone] : span[1] <= t /\ t < span[2]
  THEN SummerOffset[zone]
  ELSE StandardOffset[zone]

\* What the local clock of the zone reads at the instant t.
localTime(zone, t) == t + utcOffset(zone, t)

\* The instant at which the local clock reads local. A reading that
\* occurs twice or never is taken with the offset before the change.
utcOf(zone, local) ==
  LET offsets == {StandardOffset[zone], SummerOffset[zone]}
      fits == {o \in offsets : utcOffset(zone, local - o) = o}
      before == IF Cardinality(fits) = 1 THEN CHOOSE o \in fits : TRUE
                ELSE IF fits # {} THEN CHOOSE o \in fits : \A q \in fits : q <= o
                ELSE CHOOSE o \in offsets : \A q \in offsets : o <= q
  IN  local - before

\* new Date() followed by setDate(getDate() - 30): the local clock reading
\* of now moved back thirty calendar days.
thirtyDaysAgoOf(now, zone) == utcOf(zone, localTime(zone, now) - 30 * DayLen)

\* The zone of the process whose calls the state machines follow. They read
\* the clock at Now, and the thirty days before Now hold no offset change in
\* any zone of Zones, so every zone gives them the same thirtyDaysAgo; the
\* report computation is applied to clocks near an offset change as well
\* (SampleClocks).
LocalZone == "America/New_York"

\* The clock readings of a filter over n commits that starts at now: the
\* callback reads the clock once for each commit, and the clock may pass
\* the next hour between two readings.
ClockReadings(now, n) ==
  {[i \in 1..n |-> IF i <= k THEN now ELSE now + 1] : k \in 0..n}

\* The commits whose author date is later than thirty local calendar days
\* before the clock reading of their callback: readings[i] is what new
\* Date() gives when the filter is at commits[i].
recentCommitsOf(commits, readings, zone) ==
  LET kept == SelectSeq([i \in DOMAIN commits |-> i],
                        LAMBDA i : commits[i].date > thirtyDaysAgoOf(readings[i], zone))
  IN  [k \in DOMAIN kept |-> commits[kept[k]]]

healthScoreOf_LicenseTen(hasReadme, hasLicense, hasContributing, hasCodeOfConduct, repository, recentCommits, contributors) ==
  LET h1 == IF hasReadme THEN 20 ELSE 0
      h2 == h1 + (IF hasLicense THEN 10 ELSE 0)
      h3 == h2 + (IF hasContributing THEN 10 ELSE 0)
      h4 == h3 + (IF hasCodeOfConduct THEN 10 ELSE 0)
      h5 == h4 + (IF Truthy(repository.description) THEN 10 ELSE 0)
      h6 == h5 + (IF Len(recentCommits) > 0 THEN 15 ELSE 0)
      h7 == h6 + (IF Len(contributors) > 1 THEN 10 ELSE 0)
      h8 == h7 + (IF repository.stargazers_count > 0 THEN 5 ELSE 0)
      h9 == h8 + (IF repository.forks_count > 0 THEN 5 ELSE 0)
  IN  h9

healthScoreOf_Reset(hasReadme, hasLicense, hasContributing, hasCodeOfConduct, repository, recentCommits, contributors) ==
  LET h1 == IF hasReadme THEN 20 ELSE 0
      h2 == h1 + (IF hasLicense THEN 15 ELSE 0)
      h3 == h2 + (IF hasContributing THEN 10 ELSE 0)
      h4 == h3 + (IF hasCodeOfConduct THEN 10 ELSE 0)
      h5 == h4 + (IF Truthy(repository.description) THEN 10 ELSE 0)
      h6 == h5 + (IF Len(recentCommits) > 0 THEN 15 ELSE 0)
      h7 == IF Len(contributors) > 1 THEN 10 ELSE h6
      h8 == h7 + (IF repository.stargazers_count > 0 THEN 5 ELSE 0)
      h9 == h8 + (IF repository.forks_count > 0 THEN 5 ELSE 0)
  IN  h9

\* The health score, added up condition by condition.
healthScoreOf(hasReadme, hasLicense, hasContributing, hasCodeOfConduct, repository, recentCommits, contributors) ==
  LET h1 == IF hasReadme THEN 20 ELSE 0
      h2 == h1 + (IF hasLicense THEN 15 ELSE 0)
      h3 == h2 + (IF hasContributing THEN 10 ELSE 0)
      h4 == h3 + (IF hasCodeOfConduct THEN 10 ELSE 0)
      h5 == h4 + (IF Truthy(repository.description) THEN 10 ELSE 0)
      h6 == h5 + (IF Len(recentCommits) > 0 THEN 15 ELSE 0)
      h7 == h6 + (IF Len(contributors) > 1 THEN 10 ELSE 0)
      h8 == h7 + (IF repository.stargazers_count > 0 THEN 5 ELSE 0)
      h9 == h8 + (IF repository.forks_count > 0 THEN 5 ELSE 0)
  IN  h9

openIssuesOf_PullRequestsToo(issues) ==
  SelectSeq(issues, LAMBDA issue : issue.state = "open")

\* openIssues: the open items without a pull-request marker.
openIssuesOf(issues) ==
  SelectSeq(issues, LAMBDA issue : issue.state = "open" /\ ~issue.pull_request)

closedIssuesOf_PullRequestsToo(issues) ==
  SelectSeq(issues, LAMBDA issue : issue.state = "closed")

\* closedIssues: the closed items without a pull-request marker.
closedIssuesOf(issues) ==
  SelectSeq(issues, LAMBDA issue : issue.state = "closed" /\ ~issue.pull_request)

healthGradeOf_Strict(healthScore) ==
  IF healthScore > 80 THEN "A"
  ELSE IF healthScore > 60 THEN "B"
  ELSE IF healthScore > 40 THEN "C"
  ELSE "D"

\* healthGrade.
healthGradeOf(healthScore) ==
  IF healthScore >= 80 THEN "A"
  ELSE IF healthScore >= 60 THEN "B"
  ELSE IF healthScore >= 40 THEN "C"
  ELSE "D"

\* The report analyzeRepositoryHealth returns for the seven awaited values
\* and the commits its filter kept.
reportWith(repository, languages, commits, issues, pullRequests, contributors, contents, recentCommits) ==
  LET hasReadme == someNameIncludes(contents, Literals.readme)
      hasLicense ==
        \/ someNameIncludes(contents, Literals.license)
        \/ someNameIncludes(contents, Literals.licence)
      hasContributing ==
        someNameIncludes(contents, Literals.contributing)
      hasCodeOfConduct ==
        \/ someNameIncludes(contents,
             Literals.code_of_conduct)
        \/ someNameIncludes(contents,
             Literals.code_hyphen_of_conduct)
      openIssues == openIssuesOf(issues)
      closedIssues == closedIssuesOf(issues)
      openPRs == SelectSeq(pullRequests, LAMBDA pr : pr.state = "open")
      closedPRs == SelectSeq(pullRequests, LAMBDA pr : pr.state = "closed")
      healthScore ==
        healthScoreOf(hasReadme, hasLicense, hasContributing, hasCodeOfConduct,
                      repository, recentCommits, contributors)
  IN  [repository |-> repository,
       languages |-> languages,
       commits |-> SubSeq(commits, 1, Min(Len(commits), 10)),
       recentCommits |-> recentCommits,
       issues |-> [open |-> Len(openIssues), closed |-> Len(closedIssues),
                   total |-> Len(issues)],
       pullRequests |-> [open |-> Len(openPRs), closed |-> Len(closedPRs),
                         total |-> Len(pullRequests)],
       contributors |-> Len(contributors),
       documentation |-> [hasReadme |-> hasReadme, hasLicense |-> hasLicense,
                          hasContributing |-> hasContributing,
                          hasCodeOfConduct |-> hasCodeOfConduct],
       activity |-> [recentCommits |-> Len(recentCommits),
                     lastCommitDate |->
                       IF commits # <<>> THEN commits[1].date ELSE -1,
                     isActive |-> Len(recentCommits) > 0],
       healthScore |-> healthScore,
       healthGrade |-> healthGradeOf(healthScore)]

\* The report analyzeRepositoryHealth returns for the seven awaited values,
\* its filter of the commits reading the clock as in readings.
healthReport(repository, languages, commits, issues, pullRequests, contributors, contents, readings, zone) ==
  reportWith(repository, languages, commits, issues, pullRequests,
             contributors, contents, recentCommitsOf(commits, readings, zone))

---------------------------------------------------------------------------
(* analyzeRepositoryHealth: requests, answers and fetch helpers            *)

HealthRequests_SecondPage(owner, repo) ==
  << <<"GET", "/repos/", owner, "/", repo>>,
     <<"GET", "/repos/", owner, "/", repo, "/languages">>,
     <<"GET", "/repos/", owner, "/", repo, "/commits?per_page=30">>,
     <<"GET", "/repos/", owner, "/", repo, "/issues?state=all&per_page=100">>,
     <<"GET", "/repos/", owner, "/", repo, "/issues?state=all&per_page=100&page=2">>,
     <<"GET", "/repos/", owner, "/", repo, "/pulls?state=all&per_page=100">>,
     <<"GET", "/repos/", owner, "/", repo, "/contributors?per_page=100">>,
     <<"GET", "/repos/", owner, "/", repo, "/contents/">> >>

\* The seven requests, in the order Promise.all lists them.
HealthRequests(owner, repo) ==
  << <<"GET", "/repos/", owner, "/", repo>>,
     <<"GET", "/repos/", owner, "/", repo, "/languages">>,
     <<"GET", "/repos/", owner, "/", repo, "/commits?per_page=30">>,
     <<"GET", "/repos/", owner, "/", repo, "/issues?state=all&per_page=100">>,
     <<"GET", "/repos/", owner, "/", repo, "/pulls?state=all&per_page=100">>,
     <<"GET", "/repos/", owner, "/", repo, "/contributors?per_page=100">>,
     <<"GET", "/repos/", owner, "/", repo, "/contents/">> >>

\* Sample repository records (the fields the analysis reads).
NoRepository == [description |-> Null, stargazers_count |-> 0, forks_count |-> 0]
RepositoryRecords ==
  { NoRepository,
    [description |-> "A sample", stargazers_count |-> 5, forks_count |-> 3] }

\* The empty object {} and a language map.
EmptyMap == [k \in {} |-> 0]
LanguageMaps == { [TypeScript |-> 9000, CSS |-> 120] }

\* Commit pages: author dates in hours; at Now, thirty days ago exactly (720
\* hours) is not recent in any zone.
CommitPages ==
  { <<[date |-> Now - 5 * DayLen], [date |-> Now - 30 * DayLen],
      [date |-> Now - 400 * DayLen]>>,
    <<[date |-> Now - 30 * DayLen]>> }

\* The issues endpoint mixes pull requests in.
IssuePages ==
  { <<[state |-> "open", pull_request |-> FALSE],
      [state |-> "closed", pull_request |-> FALSE],
      [state |-> "open", pull_request |-> TRUE],
      [state |-> "closed", pull_request |-> TRUE]>> }

PullRequestPages == { <<[state |-> "open"], [state |-> "closed"], [state |-> "closed"]>> }

ContributorPages == { <<[login |-> "octocat"]>>, <<[login |-> "octocat"], [login |-> "hubot"]>> }

ContentsListings ==
  { << [name |-> Str(<<"R","E","A","D","M","E",".","m","d">>)],
       [name |-> Str(<<"L","I","C","E","N","S","E">>)],
       [name |-> Str(<<"C","O","N","T","R","I","B","U","T","I","N","G",".","m","d">>)],
       [name |-> Str(<<"C","O","D","E","_","O","F","_","C","O","N","D","U","C","T",".","m","d">>)],
       [name |-> Str(<<"s","r","c">>)] >>,
    << [name |-> Str(<<"R","e","a","d","M","e",".","t","x","t">>)],
       [name |-> Str(<<"s","r","c">>)] >> }

\* The answers to a request whose success body is one of values.
AnswersWith(values, empty, statuses) ==
  {HttpSuccess(v) : v \in values}
  \cup {HttpFailure(st, empty) : st \in statuses}
  \cup {NetworkFailure(empty)}

RepositoryResponses ==
  AnswersWith(RepositoryRecords, NoRepository, {404, 500})
  \cup {HttpUnreadable(TruncatedBody, NoRepository)}
LanguagesResponses ==
  AnswersWith(LanguageMaps, EmptyMap, {403}) \cup {HttpUnreadable(EmptyBody, EmptyMap)}
CommitsResponses == AnswersWith(CommitPages, <<>>, {403})
IssuesResponses == AnswersWith(IssuePages, <<>>, {403})
PullRequestsResponses == AnswersWith(PullRequestPages, <<>>, {403})
ContributorsResponses == AnswersWith(ContributorPages, <<>>, {403})
ContentsResponses == AnswersWith(ContentsListings, <<>>, {404})

fetchRepository_NoNotFound(owner, repo, response) ==
  IF response.net = "error" THEN Threw(FetchFailed, NoRepository)
  ELSE IF ~ok(response)
       THEN Threw(Error(<<"GitHub API error: ", response.statusText>>), NoRepository)
  ELSE IF ~response.parses THEN Threw(JsonFailed(response.text), NoRepository)
  ELSE Returned(response.json)

\* fetchRepository: the catch block logs and rethrows the same error.
fetchRepository(owner, repo, response) ==
  IF response.net = "error" THEN Threw(FetchFailed, NoRepository)
  ELSE IF ~ok(response)
       THEN IF response.status = 404
            THEN Threw(Error(<<"Repository ", owner, "/", repo, " not found">>),
                       NoRepository)
            ELSE Threw(Error(<<"GitHub API error: ", response.statusText>>),
                       NoRepository)
  ELSE IF ~response.parses THEN Threw(JsonFailed(response.text), NoRepository)
  ELSE Returned(response.json)

\* The error a fetch helper catches, if any: fetch's own, the one thrown
\* for a non-2xx answer, or the one of json().
caughtError(response) ==
  IF response.net = "error" THEN FetchFailed
  ELSE IF ~ok(response) THEN Error(<<"GitHub API error: ", response.statusText>>)
  ELSE IF ~response.parses THEN JsonFailed(response.text)
  ELSE NoError

\* fetchRepositoryContents: the catch block logs and rethrows.
fetchRepositoryContents(response) ==
  IF caughtError(response) # NoError THEN Threw(caughtError(response), <<>>)
  ELSE Returned(response.json)

\* fetchRepositoryLanguages: the catch block logs and returns {}.
fetchRepositoryLanguages(response) ==
  IF caughtError(response) # NoError THEN Returned(EmptyMap)
  ELSE Returned(response.json)

\* fetchRepositoryCommits: the catch block logs and returns [].
fetchRepositoryCommits(response) ==
  IF caughtError(response) # NoError THEN Returned(<<>>)
  ELSE Returned(response.json)

\* fetchRepositoryIssues: the catch block logs and returns [].
fetchRepositoryIssues(response) ==
  IF caughtError(response) # NoError THEN Returned(<<>>)
  ELSE Returned(response.json)

\* fetchRepositoryPullRequests: the catch block logs and returns [].
fetchRepositoryPullRequests(response) ==
  IF caughtError(response) # NoError THEN Returned(<<>>)
  ELSE Returned(response.json)

\* fetchRepositoryContributors: the catch block logs and returns [].
fetchRepositoryContributors(response) ==
  IF caughtError(response) # NoError THEN Returned(<<>>)
  ELSE Returned(response.json)

catchToEmpty_None(outcome) == outcome

\* promise.catch(() => []): a thrown error becomes the empty list.
catchToEmpty(outcome) ==
  IF outcome.threw THEN Returned(<<>>) ELSE outcome

\* A promise of Promise.all's list: pending, or settled with the outcome of
\* its fetch helper; net, status and parses keep the answer its fetch got.
PendingPromise(empty) ==
  [state |-> "pending", value |-> empty, error |-> NoError,
   net |-> "pending", status |-> 0, parses |-> FALSE]

SettledPromise(outcome, response) ==
  [state |-> IF outcome.threw THEN "rejected" ELSE "fulfilled",
   value |-> outcome.value, error |-> outcome.error,
   net |-> response.net, status |-> response.status,
   parses |-> response.parses]

---------------------------------------------------------------------------
(* fetchCompleteProfile as a state machine                                 *)

VARIABLES
  pc,              \* where the call of fetchCompleteProfile stands
  username,        \* its argument
  user,            \* const user
  repos,           \* const repos
  contributions,   \* const contributions of calculateProfileMetrics
  prsResponse,     \* the PR search fetch of calculatePRsAndIssues
  issuesResponse,  \* the issue search fetch of calculatePRsAndIssues
  result,          \* the ProfileWithMetrics the call resolved with
  error,           \* the error the call rejected with
  requests,        \* the requests issued so far, in order
  settled,         \* the awaited fetches of fetchUser, fetchUserRepos and
                   \* fetchUserContributions settled so far, with their answers
  console,         \* what console.error has logged, in order
  hpc,             \* where the call of analyzeRepositoryHealth stands
  target,          \* its arguments <<owner, repo>>
  repositoryP,     \* the seven promises handed to Promise.all
  languagesP,
  commitsP,
  issuesP,
  pullRequestsP,
  contributorsP,
  contentsP,
  report,          \* the report the call resolved with
  herror,          \* the error the call rejected with
  hrequests,       \* the requests issued so far, in order
  hlogged          \* what console.error has logged (labels with errors)

healthVars ==
  <<hpc, target, repositoryP, languagesP, commitsP, issuesP, pullRequestsP,
    contributorsP, contentsP, report, herror, hrequests, hlogged>>

profileVars ==
  <<pc, username, user, repos, contributions, prsResponse, issuesResponse,
    result, error, requests, settled, console>>

VARIABLES
  values,          \* seven awaited values handed to the report computation
  computed,        \* the report computed from them
  graded,          \* a health score with the grade computed for it
  scored           \* a user record or repository list with the score computed for it

pureVars == <<values, computed, graded, scored>>

VARIABLES
  received,        \* the answers the awaited fetches of the profile call got
  hreceived,       \* the answers the seven fetches of the analysis got
  abandoned,       \* the fetches of returned analyses still pending: for
                   \* each place of the Promise.all list, how many
  analyses         \* how many times analyzeRepositoryHealth was called

callVars == <<received, hreceived, abandoned, analyses>>


VARIABLES
  huggingFaceAvailable,  \* AIService.huggingFaceAvailable
  geminiAvailable,       \* AIService.geminiAvailable
  checking,              \* where checkAPIAvailability stands
  providers,             \* how each provider behaves, unknown to the service
  gpc,                   \* where the call of generateResponse stands
  preferredProvider,     \* its preferredProvider argument
  generated              \* its outcome: the text returned or the error thrown

aiVars ==
  <<huggingFaceAvailable, geminiAvailable, checking, providers, gpc,
    preferredProvider, generated>>

VARIABLES
  mpc,             \* where the call of makeRequest stands
  retryCount,      \* its retryCount argument, in the innermost call
  posts,           \* the answers axios.post got, one per request sent
  delays,          \* the waits made between requests, in ms
  outcome          \* the data returned or the error thrown

clientVars == <<mpc, retryCount, posts, delays, outcome>>

VARIABLES
  comparison_history,  \* the rows of table comparison_history
  comparison_shares,   \* the rows of table comparison_shares
  saved,               \* the comparison rows saveComparison has returned
  links,               \* the share rows createShareLink has returned
  sharer,              \* the call of createShareLink
  thrown,              \* what saveComparison, updateComparison and
                       \* deleteComparison have thrown
  viewers              \* the calls of getComparisonByShareToken

shareVars ==
  <<comparison_history, comparison_shares, saved, links, sharer, thrown, viewers>>

serviceVars == <<aiVars, clientVars, shareVars>>

Usernames == {"octocat", "ghost"}

NoMetrics == [totalScore |-> -1]
NoResult == [user |-> NoUser, repos |-> <<>>, metrics |-> NoMetrics]

ProfileInit ==
  /\ pc = "idle"
  /\ username = Null
  /\ user = NoUser
  /\ repos = <<>>
  /\ contributions = 0
  /\ prsResponse = Pending
  /\ issuesResponse = Pending
  /\ result = NoResult
  /\ error = NoError
  /\ requests = <<>>
  /\ settled = <<>>
  /\ console = <<>>

\* The entry of the settled log for a request answered with response.
Answer(request, response) ==
  [request |-> request, net |-> response.net, status |-> response.status,
   parses |-> response.parses]

Call_Eager(u) ==
  /\ pc = "idle"
  /\ username' = u
  /\ requests' = requests \o <<UserRequest(u), ReposRequest(u)>>
  /\ pc' = "fetchUser"
  /\ UNCHANGED <<user, repos, contributions, prsResponse, issuesResponse,
                 result, error, settled, console>>
  /\ UNCHANGED <<healthVars, pureVars, callVars, serviceVars>>

\* fetchCompleteProfile(u) is called: it runs up to its first await, the
\* fetch of fetchUser.
Call(u) ==
  /\ pc = "idle"
  /\ username' = u
  /\ requests' = Append(requests, UserRequest(u))
  /\ pc' = "fetchUser"
  /\ UNCHANGED <<user, repos, contributions, prsResponse, issuesResponse,
                 result, error, settled, console>>
  /\ UNCHANGED <<healthVars, pureVars, callVars, serviceVars>>

\* The user fetch settles.  On an error fetchUser logs it and rethrows, and
\* fetchCompleteProfile rejects with it; otherwise fetchUserRepos is called
\* and issues its fetch.
UserSettles(response) ==
  /\ pc = "fetchUser"
  /\ settled' = Append(settled, Answer(UserRequest(username), response))
  /\ LET out == fetchUser(username, response)
     IN  IF out.threw
         THEN /\ console' = Append(console, <<"Error fetching user:", out.error>>)
              /\ error' = out.error
              /\ pc' = "rejected"
              /\ UNCHANGED <<user, requests>>
         ELSE /\ user' = out.value
              /\ requests' = Append(requests, ReposRequest(username))
              /\ pc' = "fetchUserRepos"
              /\ UNCHANGED <<error, console>>
  /\ UNCHANGED <<username, repos, contributions, prsResponse, issuesResponse, result>>
  /\ received' = Append(received, response)
  /\ UNCHANGED <<healthVars, pureVars, hreceived, abandoned, analyses, serviceVars>>

\* The repository fetch settles.  On an error fetchUserRepos logs it and
\* rethrows; otherwise calculateProfileMetrics starts and
\* fetchUserContributions issues the events fetch.
ReposSettle(response) ==
  /\ pc = "fetchUserRepos"
  /\ settled' = Append(settled, Answer(ReposRequest(username), response))
  /\ LET out == fetchUserRepos(username, response)
     IN  IF out.threw
         THEN /\ console' = Append(console, <<"Error fetching user repos:", out.error>>)
              /\ error' = out.error
              /\ pc' = "rejected"
              /\ UNCHANGED <<repos, requests>>
         ELSE /\ repos' = out.value
              /\ requests' = Append(requests, EventsRequest(user.login))
              /\ pc' = "fetchUserContributions"
              /\ UNCHANGED <<error, console>>
  /\ UNCHANGED <<username, user, contributions, prsResponse, issuesResponse, result>>
  /\ received' = Append(received, response)
  /\ UNCHANGED <<healthVars, pureVars, hreceived, abandoned, analyses, serviceVars>>

\* The events fetch settles: contributions is set, the languages and the
\* README score are computed, and calculatePRsAndIssues issues its two
\* search fetches.  (An error thrown by an awaited call would reject
\* calculateProfileMetrics and, through it, fetchCompleteProfile.)
EventsSettle(response) ==
  /\ pc = "fetchUserContributions"
  /\ settled' = Append(settled, Answer(EventsRequest(user.login), response))
  /\ LET out == fetchUserContributions(response)
     IN  IF out.threw
         THEN /\ error' = out.error
              /\ pc' = "rejected"
              /\ UNCHANGED <<contributions, requests>>
         ELSE /\ contributions' = out.value
              /\ requests' = requests \o <<PrSearchRequest(user.login),
                                           IssueSearchRequest(user.login)>>
              /\ pc' = "calculatePRsAndIssues"
              /\ UNCHANGED error
  /\ UNCHANGED <<username, user, repos, prsResponse, issuesResponse, result, console>>
  /\ received' = Append(received, response)
  /\ UNCHANGED <<healthVars, pureVars, hreceived, abandoned, analyses, serviceVars>>

\* The rest of calculateProfileMetrics and of fetchCompleteProfile once
\* Promise.all over the search fetches has settled with prs and issues.
Finish(prs, issues) ==
  IF searchSettled(prs, issues)
  THEN /\ result' =
            [user |-> user, repos |-> repos,
             metrics |-> calculateProfileMetrics(
                           user, repos, contributions,
                           calculatePRsAndIssues(prs, issues), Now)]
       /\ pc' = "resolved"
  ELSE UNCHANGED <<result, pc>>

\* The PR search fetch settles.
PrSearchSettles(response) ==
  /\ pc = "calculatePRsAndIssues"
  /\ prsResponse = Pending
  /\ prsResponse' = response
  /\ Finish(response, issuesResponse)
  /\ UNCHANGED <<username, user, repos, contributions, issuesResponse, error,
                 requests, settled, console>>
  /\ UNCHANGED <<healthVars, pureVars, callVars, serviceVars>>

\* The issue search fetch settles.
IssueSearchSettles(response) ==
  /\ pc = "calculatePRsAndIssues"
  /\ issuesResponse = Pending
  /\ issuesResponse' = response
  /\ Finish(prsResponse, response)
  /\ UNCHANGED <<username, user, repos, contributions, prsResponse, error,
                 requests, settled, console>>
  /\ UNCHANGED <<healthVars, pureVars, callVars, serviceVars>>

---------------------------------------------------------------------------
(* analyzeRepositoryHealth as a state machine                              *)

RepoRefs == {<<"octocat", "hello-world">>}

NoReport ==
  [healthScore |-> -1, healthGrade |-> "",
   documentation |-> [hasReadme |-> FALSE, hasLicense |-> FALSE,
                      hasContributing |-> FALSE, hasCodeOfConduct |-> FALSE]]

HealthInit ==
  /\ hpc = "idle"
  /\ target = <<Null, Null>>
  /\ repositoryP = PendingPromise(NoRepository)
  /\ languagesP = PendingPromise(EmptyMap)
  /\ commitsP = PendingPromise(<<>>)
  /\ issuesP = PendingPromise(<<>>)
  /\ pullRequestsP = PendingPromise(<<>>)
  /\ contributorsP = PendingPromise(<<>>)
  /\ contentsP = PendingPromise(<<>>)
  /\ report = NoReport
  /\ herror = NoError
  /\ hrequests = <<>>
  /\ hlogged = {}

\* The number of calls of analyzeRepositoryHealth a caller makes, at most.
MaxAnalyses == 2

\* analyzeRepositoryHealth(owner, repo) is called: the seven fetch helpers
\* are called in turn, each issuing its request, and Promise.all awaits them.
Analyze(ref) ==
  /\ hpc = "idle"
  /\ analyses < MaxAnalyses
  /\ analyses' = analyses + 1
  /\ target' = ref
  /\ hrequests' = hrequests \o HealthRequests(ref[1], ref[2])
  /\ hpc' = "pending"
  /\ UNCHANGED <<repositoryP, languagesP, commitsP, issuesP, pullRequestsP,
                 contributorsP, contentsP, report, herror, hlogged>>
  /\ UNCHANGED <<profileVars, pureVars, received, hreceived, abandoned, serviceVars>>

allFulfilled_SixOfSeven ==
  /\ repositoryP.state = "fulfilled"
  /\ languagesP.state = "fulfilled"
  /\ commitsP.state = "fulfilled"
  /\ issuesP.state = "fulfilled"
  /\ pullRequestsP.state = "fulfilled"
  /\ contributorsP.state = "fulfilled"

\* Every promise of the list is fulfilled.
allFulfilled ==
  /\ repositoryP.state = "fulfilled"
  /\ languagesP.state = "fulfilled"
  /\ commitsP.state = "fulfilled"
  /\ issuesP.state = "fulfilled"
  /\ pullRequestsP.state = "fulfilled"
  /\ contributorsP.state = "fulfilled"
  /\ contentsP.state = "fulfilled"

\* All seven fetches have settled.
AllSettled ==
  /\ repositoryP.state # "pending"
  /\ languagesP.state # "pending"
  /\ commitsP.state # "pending"
  /\ issuesP.state # "pending"
  /\ pullRequestsP.state # "pending"
  /\ contributorsP.state # "pending"
  /\ contentsP.state # "pending"

\* What the filter of the fulfilled commits may keep, for the readings its
\* callback may take of a clock at Now.
recentCommitsNow ==
  {recentCommitsOf(commitsP.value, readings, LocalZone) :
     readings \in ClockReadings(Now, Len(commitsP.value))}

\* The report for the seven fulfilled values and the commits the filter
\* kept.
reportNow(recentCommits) ==
  reportWith(repositoryP.value, languagesP.value, commitsP.value,
             issuesP.value, pullRequestsP.value, contributorsP.value,
             contentsP.value, recentCommits)

\* What follows the settling of promise p, whose helper logged logs: while
\* Promise.all is awaited, a rejection rejects it at once, the catch block
\* of analyzeRepositoryHealth logs and rethrows; the last fulfilment
\* fulfils it and the report is computed.  After a rejection the remaining
\* fetches still settle, to no effect.
Join(p, logs) ==
  IF hpc = "pending" /\ p.state = "rejected"
  THEN /\ hpc' = "rejected"
       /\ herror' = p.error
       /\ hlogged' = hlogged \cup logs
                       \cup {<<"Error analyzing repository health:", p.error>>}
       /\ UNCHANGED report
  ELSE IF hpc = "pending" /\ allFulfilled'
  THEN /\ hpc' = "resolved"
       /\ \E recentCommits \in recentCommitsNow' :
             report' = reportNow(recentCommits)'
       /\ hlogged' = hlogged \cup logs
       /\ UNCHANGED herror
  ELSE /\ hlogged' = hlogged \cup logs
       /\ UNCHANGED <<hpc, report, herror>>

\* The log entry of a fetch helper's catch block, if it caught anything.
Logged(label, err) == IF err = NoError THEN {} ELSE {<<label, err>>}

RepositorySettles(response) ==
  /\ hpc # "idle"
  /\ repositoryP.state = "pending"
  /\ LET out == fetchRepository(target[1], target[2], response)
     IN  /\ repositoryP' = SettledPromise(out, response)
         /\ UNCHANGED <<languagesP, commitsP, issuesP, pullRequestsP,
                        contributorsP, contentsP>>
         /\ Join(SettledPromise(out, response),
                 Logged("Error fetching repository:", out.error))
  /\ UNCHANGED <<target, hrequests>>
  /\ hreceived' = [hreceived EXCEPT ![1] = response]
  /\ UNCHANGED <<profileVars, pureVars, received, abandoned, analyses, serviceVars>>

LanguagesSettle(response) ==
  /\ hpc # "idle"
  /\ languagesP.state = "pending"
  /\ LET out == fetchRepositoryLanguages(response)
     IN  /\ languagesP' = SettledPromise(out, response)
         /\ UNCHANGED <<repositoryP, commitsP, issuesP, pullRequestsP,
                        contributorsP, contentsP>>
         /\ Join(SettledPromise(out, response),
                 Logged("Error fetching repository languages:", caughtError(response)))
  /\ UNCHANGED <<target, hrequests>>
  /\ hreceived' = [hreceived EXCEPT ![2] = response]
  /\ UNCHANGED <<profileVars, pureVars, received, abandoned, analyses, serviceVars>>

CommitsSettle(response) ==
  /\ hpc # "idle"
  /\ commitsP.state = "pending"
  /\ LET out == fetchRepositoryCommits(response)
     IN  /\ commitsP' = SettledPromise(out, response)
         /\ UNCHANGED <<repositoryP, languagesP, issuesP, pullRequestsP,
                        contributorsP, contentsP>>
         /\ Join(SettledPromise(out, response),
                 Logged("Error fetching repository commits:", caughtError(response)))
  /\ UNCHANGED <<target, hrequests>>
  /\ hreceived' = [hreceived EXCEPT ![3] = response]
  /\ UNCHANGED <<profileVars, pureVars, received, abandoned, analyses, serviceVars>>

IssuesSettle(response) ==
  /\ hpc # "idle"
  /\ issuesP.state = "pending"
  /\ LET out == fetchRepositoryIssues(response)
     IN  /\ issuesP' = SettledPromise(out, response)
         /\ UNCHANGED <<repositoryP, languagesP, commitsP, pullRequestsP,
                        contributorsP, contentsP>>
         /\ Join(SettledPromise(out, response),
                 Logged("Error fetching repository issues:", caughtError(response)))
  /\ UNCHANGED <<target, hrequests>>
  /\ hreceived' = [hreceived EXCEPT ![4] = response]
  /\ UNCHANGED <<profileVars, pureVars, received, abandoned, analyses, serviceVars>>

PullRequestsSettle(response) ==
  /\ hpc # "idle"
  /\ pullRequestsP.state = "pending"
  /\ LET out == fetchRepositoryPullRequests(response)
     IN  /\ pullRequestsP' = SettledPromise(out, response)
         /\ UNCHANGED <<repositoryP, languagesP, commitsP, issuesP,
                        contributorsP, contentsP>>
         /\ Join(SettledPromise(out, response),
                 Logged("Error fetching repository pull requests:",
                        caughtError(response)))
  /\ UNCHANGED <<target, hrequests>>
  /\ hreceived' = [hreceived EXCEPT ![5] = response]
  /\ UNCHANGED <<profileVars, pureVars, received, abandoned, analyses, serviceVars>>

ContributorsSettle(response) ==
  /\ hpc # "idle"
  /\ contributorsP.state = "pending"
  /\ LET out == fetchRepositoryContributors(response)
     IN  /\ contributorsP' = SettledPromise(out, response)
         /\ UNCHANGED <<repositoryP, languagesP, commitsP, issuesP,
                        pullRequestsP, contentsP>>
         /\ Join(SettledPromise(out, response),
                 Logged("Error fetching repository contributors:",
                        caughtError(response)))
  /\ UNCHANGED <<target, hrequests>>
  /\ hreceived' = [hreceived EXCEPT ![6] = response]
  /\ UNCHANGED <<profileVars, pureVars, received, abandoned, analyses, serviceVars>>

\* The directory listing settles: what Promise.all holds is the promise of
\* fetchRepositoryContents(owner, repo).catch(() => []).
ContentsSettle(response) ==
  /\ hpc # "idle"
  /\ contentsP.state = "pending"
  /\ LET out == catchToEmpty(fetchRepositoryContents(response))
     IN  /\ contentsP' = SettledPromise(out, response)
         /\ UNCHANGED <<repositoryP, languagesP, commitsP, issuesP,
                        pullRequestsP, contributorsP>>
         /\ Join(SettledPromise(out, response),
                 Logged("Error fetching repository contents:", caughtError(response)))
  /\ UNCHANGED <<target, hrequests>>
  /\ hreceived' = [hreceived EXCEPT ![7] = response]
  /\ UNCHANGED <<profileVars, pureVars, received, abandoned, analyses, serviceVars>>

ProfileNext ==
  \/ \E u \in Usernames : Call(u)
  \/ \E response \in UserResponses : UserSettles(response)
  \/ \E response \in ReposResponses : ReposSettle(response)
  \/ \E response \in EventsResponses : EventsSettle(response)
  \/ \E response \in SearchResponses : PrSearchSettles(response)
  \/ \E response \in SearchResponses : IssueSearchSettles(response)

HealthNext ==
  \/ \E ref \in RepoRefs : Analyze(ref)
  \/ \E response \in RepositoryResponses : RepositorySettles(response)
  \/ \E response \in LanguagesResponses : LanguagesSettle(response)
  \/ \E response \in CommitsResponses : CommitsSettle(response)
  \/ \E response \in IssuesResponses : IssuesSettle(response)
  \/ \E response \in PullRequestsResponses : PullRequestsSettle(response)
  \/ \E response \in ContributorsResponses : ContributorsSettle(response)
  \/ \E response \in ContentsResponses : ContentsSettle(response)

---------------------------------------------------------------------------
(* The report computation and the grade, applied to sample values          *)

\* The largest health score graded.
MaxScore == 100

\* Documentation files of a root directory, in the second spelling of
\* LICENCE and of code-of-conduct.
DocFiles ==
  << [name |-> Str(<<"R","E","A","D","M","E",".","m","d">>)],
     [name |-> Str(<<"L","i","c","e","n","c","e">>)],
     [name |-> Str(<<"C","O","N","T","R","I","B","U","T","I","N","G">>)],
     [name |-> Str(<<"c","o","d","e","-","o","f","-","c","o","n","d","u","c","t",".","m","d">>)] >>

\* The root directory holding the documentation files picked and a source
\* directory.
Listing(picked) ==
  [i \in 1..Cardinality(picked) |->
     DocFiles[CHOOSE k \in picked : Cardinality({j \in picked : j < k}) = i - 1]]
  \o << [name |-> Str(<<"s","r","c">>)] >>

\* Sample values of the seven fetches.
SampleRepositories ==
  [description : {Null, "", "A sample"}, stargazers_count : {0, 5},
   forks_count : {0, 3}]
SampleCommits == CommitPages \cup {<<>>}
SampleContributors == ContributorPages \cup {<<>>}
SampleIssues ==
  IssuePages
  \cup { <<>>,
         <<[state |-> "open", pull_request |-> TRUE],
           [state |-> "closed", pull_request |-> TRUE]>>,
         <<[state |-> "open", pull_request |-> FALSE],
           [state |-> "open", pull_request |-> FALSE],
           [state |-> "closed", pull_request |-> TRUE]>> }
SampleContents == {Listing(picked) : picked \in SUBSET (1..4)}

\* Clock readings: Now in each zone, and three instants whose thirty days
\* cross an offset change: 08:00 UTC on 10 November 2026 (721 hours in New
\* York, 722 in Troll), 08:00 UTC on 20 March 2027 (719 hours in New York)
\* and 08:00 UTC on 10 April 2027 (719 hours in New York, 718 in Troll, 721
\* in Santiago).
AfterDstEnd == 20767 * DayLen + 8
AfterDstStart == 20897 * DayLen + 8
AfterBothStarts == 20918 * DayLen + 8
SampleClocks == [now : {Now, AfterDstEnd, AfterDstStart, AfterBothStarts}, zone : Zones]

\* One commit of each age around thirty days, in hours before the reading,
\* one whose author, with a clock ahead, dated it an hour or a year after
\* the reading, and two commits of the same date around thirty days.
CommitsNear(now) ==
  {<<[date |-> now - age]>> :
     age \in ((30 * DayLen - 3)..(30 * DayLen + 3)) \cup {-1, -365 * DayLen}}
  \cup {<<[date |-> now - age], [date |-> now - age]>> :
          age \in (30 * DayLen - 3)..(30 * DayLen + 3)}

\* The values v with the readings the filter of v.commits takes of the clock.
Clocked(v, readings) ==
  [v EXCEPT !.clock = [now |-> @.now, zone |-> @.zone, readings |-> readings]]

\* The sample values at Now in the local zone, the clock staying within its
\* hour, and the commits around thirty days old at every clock reading,
\* the clock passing the hour before any commit of the filter or none.
SampleValues ==
  { Clocked(v, [i \in DOMAIN v.commits |-> Now]) :
      v \in [repository : SampleRepositories, languages : LanguageMaps,
             commits : SampleCommits, issues : SampleIssues,
             pullRequests : PullRequestPages, contributors : SampleContributors,
             contents : SampleContents,
             clock : {[now |-> Now, zone |-> LocalZone]}] }
  \cup
  UNION { { Clocked(v, readings) :
              readings \in ClockReadings(v.clock.now, Len(v.commits)) } :
          v \in UNION { [repository : {NoRepository}, languages : LanguageMaps,
                         commits : CommitsNear(c.now), issues : {<<>>},
                         pullRequests : PullRequestPages, contributors : {<<>>},
                         contents : {Listing({}), Listing({1})}, clock : {c}]
                        : c \in SampleClocks } }

NoValues == [repository |-> NoRepository]
NoGrade == [healthScore |-> -1, healthGrade |-> ""]
NoScore == [of |-> "none"]

PureInit ==
  /\ values = NoValues
  /\ computed = NoReport
  /\ graded = NoGrade
  /\ scored = NoScore

\* The body of analyzeRepositoryHealth after its await, for the values v,
\* the filter of the commits reading the clock as in v.clock.readings.
ComputeReport(v) ==
  /\ values = NoValues
  /\ values' = v
  /\ computed' = healthReport(v.repository, v.languages, v.commits, v.issues,
                              v.pullRequests, v.contributors, v.contents,
                              v.clock.readings, v.clock.zone)
  /\ UNCHANGED <<graded, scored, profileVars, healthVars, callVars, serviceVars>>

\* The healthGrade expression, for the health score n.
Grade(n) ==
  /\ graded = NoGrade
  /\ graded' = [healthScore |-> n, healthGrade |-> healthGradeOf(n)]
  /\ UNCHANGED <<values, computed, scored, profileVars, healthVars, callVars, serviceVars>>

ReportNext == \E v \in SampleValues : ComputeReport(v)

GradeNext == \E n \in 0..MaxScore : Grade(n)

\* Sample user records around the thresholds of calculateAchievementScore.
SampleUsers ==
  [login : {"octocat"}, public_repos : {10, 11}, followers : {50, 51},
   following : {0, 7}, public_gists : {5, 6}, bio : {Null, "", "dev"},
   blog : {Null, "", "https://example.org"}, created_at : {Now - 49}]

\* Sample pages of repositories.
SamplePages == {FirstPage(list) : list \in AccountRepoLists}

\* calculateAchievementScore, for the user record u.
Achievement(u) ==
  /\ scored = NoScore
  /\ scored' = [of |-> "achievementScore", user |-> u, repos |-> <<>>,
                score |-> calculateAchievementScore(u)]
  /\ UNCHANGED <<values, computed, graded, profileVars, healthVars, callVars, serviceVars>>

\* calculateCommunityScore, for the repository page rs.
Community(rs) ==
  /\ scored = NoScore
  /\ scored' = [of |-> "communityScore", user |-> NoUser, repos |-> rs,
                score |-> calculateCommunityScore(rs)]
  /\ UNCHANGED <<values, computed, graded, profileVars, healthVars, callVars, serviceVars>>

ScoresNext ==
  \/ \E u \in SampleUsers : Achievement(u)
  \/ \E rs \in SamplePages : Community(rs)

---------------------------------------------------------------------------
(* Calls one after another and side by side                                *)

\* No fetch of a returned analysis is pending.
NoneAbandoned == [k \in 1..7 |-> 0]

\* The seven answers of an analysis before any has arrived.
NoAnswers == [k \in 1..7 |-> Pending]

CallInit ==
  /\ received = <<>>
  /\ hreceived = NoAnswers
  /\ abandoned = NoneAbandoned
  /\ analyses = 0

\* fetchCompleteProfile as a function of the answers its fetches get: rcv
\* holds those of the user, repository and events fetches, as far as they
\* are awaited; prs and issues are the search fetches as Promise.all sees
\* them settle.
fetchCompleteProfile(u, rcv, prs, issues) ==
  LET a == fetchUser(u, rcv[1])
      b == fetchUserRepos(u, rcv[2])
      c == fetchUserContributions(rcv[3])
  IN  IF a.threw
      THEN [pc |-> "rejected", result |-> NoResult, error |-> a.error]
      ELSE IF b.threw
      THEN [pc |-> "rejected", result |-> NoResult, error |-> b.error]
      ELSE IF c.threw
      THEN [pc |-> "rejected", result |-> NoResult, error |-> c.error]
      ELSE [pc |-> "resolved",
            result |-> [user |-> a.value, repos |-> b.value,
                        metrics |-> calculateProfileMetrics(
                                      a.value, b.value, c.value,
                                      calculatePRsAndIssues(prs, issues), Now)],
            error |-> NoError]

\* analyzeRepositoryHealth as a function of the answers its seven fetches
\* get, in the order of the Promise.all list, and of the clock readings of
\* its filter of the commits.
analyzeRepositoryHealth(owner, repo, answers, readings) ==
  LET repository == fetchRepository(owner, repo, answers[1])
  IN  IF repository.threw
      THEN [hpc |-> "rejected", report |-> NoReport, herror |-> repository.error]
      ELSE [hpc |-> "resolved",
            report |-> healthReport(
                         repository.value,
                         fetchRepositoryLanguages(answers[2]).value,
                         fetchRepositoryCommits(answers[3]).value,
                         fetchRepositoryIssues(answers[4]).value,
                         fetchRepositoryPullRequests(answers[5]).value,
                         fetchRepositoryContributors(answers[6]).value,
                         catchToEmpty(fetchRepositoryContents(answers[7])).value,
                         readings, LocalZone),
            herror |-> NoError]

\* The promise of fetchCompleteProfile has settled and its caller takes the
\* outcome: the locals of the call are gone, and the module keeps nothing
\* of it.
ProfileReturns ==
  /\ pc \in {"resolved", "rejected"}
  /\ pc' = "idle"
  /\ username' = Null
  /\ user' = NoUser
  /\ repos' = <<>>
  /\ contributions' = 0
  /\ prsResponse' = Pending
  /\ issuesResponse' = Pending
  /\ result' = NoResult
  /\ error' = NoError
  /\ requests' = <<>>
  /\ settled' = <<>>
  /\ console' = <<>>
  /\ received' = <<>>
  /\ UNCHANGED <<healthVars, pureVars, hreceived, abandoned, analyses, serviceVars>>

\* The fetches of the analysis that have not settled, by their place in
\* the Promise.all list.
pendingFetches ==
  LET promises == <<repositoryP, languagesP, commitsP, issuesP, pullRequestsP,
                    contributorsP, contentsP>>
  IN  {k \in 1..7 : promises[k].state = "pending"}

\* The promise of analyzeRepositoryHealth has settled and its caller takes
\* the outcome.  Promise.all rejects at the first rejection, so a rejected
\* call may return while fetches of it are pending: they stay pending
\* after the return, with those of the calls that returned before.
HealthReturns ==
  /\ hpc \in {"resolved", "rejected"}
  /\ abandoned' = [k \in 1..7 |-> abandoned[k] + (IF k \in pendingFetches THEN 1 ELSE 0)]
  /\ hpc' = "idle"
  /\ target' = <<Null, Null>>
  /\ repositoryP' = PendingPromise(NoRepository)
  /\ languagesP' = PendingPromise(EmptyMap)
  /\ commitsP' = PendingPromise(<<>>)
  /\ issuesP' = PendingPromise(<<>>)
  /\ pullRequestsP' = PendingPromise(<<>>)
  /\ contributorsP' = PendingPromise(<<>>)
  /\ contentsP' = PendingPromise(<<>>)
  /\ report' = NoReport
  /\ herror' = NoError
  /\ hrequests' = <<>>
  /\ hlogged' = {}
  /\ hreceived' = NoAnswers
  /\ UNCHANGED <<profileVars, pureVars, received, analyses, serviceVars>>

\* What the catch blocks of the fetch helpers log, by the place of the
\* helper in the Promise.all list.
helperLabels ==
  << "Error fetching repository:",
     "Error fetching repository languages:",
     "Error fetching repository commits:",
     "Error fetching repository issues:",
     "Error fetching repository pull requests:",
     "Error fetching repository contributors:",
     "Error fetching repository contents:" >>

\* The fetch at place k of a returned analysis settles: its helper logs
\* what it catches and the promise it settles is awaited by nobody.  (The
\* repository fetch is never among them: its rejection is what lets a call
\* return early.)
AbandonedSettles(k, response) ==
  /\ abandoned[k] > 0
  /\ abandoned' = [abandoned EXCEPT ![k] = @ - 1]
  /\ hlogged' = hlogged \cup Logged(helperLabels[k], caughtError(response))
  /\ UNCHANGED <<hpc, target, repositoryP, languagesP, commitsP, issuesP,
                 pullRequestsP, contributorsP, contentsP, report, herror,
                 hrequests>>
  /\ UNCHANGED <<profileVars, pureVars, received, hreceived, analyses, serviceVars>>

\* A few answers of each kind, for calls that overlap and repeat.
FewUserResponses ==
  {HttpSuccess(u) : u \in {r \in UserRecords : r.public_repos = 10}}
  \cup {HttpFailure(404, ErrorBody)}
FewReposResponses ==
  {HttpSuccess(FirstPage(Block(k, 5))) : k \in {r \in RepoKinds : r.description = ReadmeDesc51}}
  \cup {HttpFailure(500, <<>>)}
FewEventsResponses == {HttpSuccess(Block("event", 30))}
FewPrSearchResponses == {HttpSuccess([total_count |-> 7])}
FewIssueSearchResponses == {HttpSuccess([total_count |-> 7]), HttpFailure(403, ErrorBody)}
FewRepositoryResponses ==
  {HttpSuccess(r) : r \in RepositoryRecords \ {NoRepository}}
  \cup {HttpFailure(404, NoRepository)}
FewCommitsResponses ==
  {HttpSuccess(page) : page \in {c \in CommitPages : Len(c) > 1}}
FewContributorsResponses ==
  {HttpSuccess(page) : page \in {c \in ContributorPages : Len(c) > 1}}
FewContentsResponses ==
  {HttpSuccess(l) : l \in {c \in ContentsListings : Len(c) > 2}}
  \cup {HttpFailure(404, <<>>)}

OnlySuccesses(responses) == {r \in responses : ok(r) /\ r.parses}

\* The answers to the fetches of a returned analysis: the languages fetch
\* may fail, the others succeed.
FewAbandonedResponses(k) ==
  IF k = 2 THEN LanguagesResponses ELSE {HttpSuccess(<<>>)}

\* Calls of both functions side by side, each function called again when
\* its call has returned, whatever is pending then (the two searches of the
\* profile answer with success here).
CallsNext ==
  \/ \E u \in {"octocat"} : Call(u)
  \/ \E response \in FewUserResponses : UserSettles(response)
  \/ \E response \in FewReposResponses : ReposSettle(response)
  \/ \E response \in FewEventsResponses : EventsSettle(response)
  \/ \E response \in FewPrSearchResponses : PrSearchSettles(response)
  \/ \E response \in OnlySuccesses(FewIssueSearchResponses) : IssueSearchSettles(response)
  \/ ProfileReturns
  \/ \E ref \in RepoRefs : Analyze(ref)
  \/ \E response \in FewRepositoryResponses : RepositorySettles(response)
  \/ \E response \in OnlySuccesses(LanguagesResponses) : LanguagesSettle(response)
  \/ \E response \in FewCommitsResponses : CommitsSettle(response)
  \/ \E response \in OnlySuccesses(IssuesResponses) : IssuesSettle(response)
  \/ \E response \in OnlySuccesses(PullRequestsResponses) : PullRequestsSettle(response)
  \/ \E response \in FewContributorsResponses : ContributorsSettle(response)
  \/ \E response \in FewContentsResponses : ContentsSettle(response)
  \/ HealthReturns
  \/ \E k \in 2..7 : \E response \in OnlySuccesses(FewAbandonedResponses(k)) :
        AbandonedSettles(k, response)

\* Analyses one after another, the fetches a rejected one has left pending
\* settling during the next ones and logging what they catch.
AbandonNext ==
  \/ \E ref \in RepoRefs : Analyze(ref)
  \/ \E response \in FewRepositoryResponses : RepositorySettles(response)
  \/ \E response \in OnlySuccesses(LanguagesResponses) : LanguagesSettle(response)
  \/ \E response \in FewCommitsResponses : CommitsSettle(response)
  \/ \E response \in OnlySuccesses(IssuesResponses) : IssuesSettle(response)
  \/ \E response \in OnlySuccesses(PullRequestsResponses) : PullRequestsSettle(response)
  \/ \E response \in FewContributorsResponses : ContributorsSettle(response)
  \/ \E response \in OnlySuccesses(FewContentsResponses) : ContentsSettle(response)
  \/ HealthReturns
  \/ \E k \in 2..7 : \E response \in FewAbandonedResponses(k) :
        AbandonedSettles(k, response)

---------------------------------------------------------------------------
(* AIService: the availability check and generateResponse                  *)

ProviderNames == {"huggingface", "gemini"}

\* How a provider behaves in a run: it serves texts; it answers without a
\* text; it answers the availability test but fails generation requests;
\* it refuses every request (a bad key); it cannot be reached.
Behaviours == {"serving", "silent", "failing", "refusing", "unreachable"}

\* The answer of a provider to the test request of checkAPIAvailability.
ProbeAnswer(behaviour) ==
  CASE behaviour = "unreachable" -> NetworkFailure([text |-> Null])
    [] behaviour = "refusing" -> HttpFailure(403, [text |-> Null])
    [] OTHER -> HttpSuccess([text |-> Null])

\* The answer of a provider to a generation request; text stands for
\* result[0].generated_text, result.generated_text or
\* result.candidates[0].content.parts[0].text.
GenerationAnswer(provider, behaviour) ==
  CASE behaviour = "unreachable" -> NetworkFailure([text |-> Null])
    [] behaviour = "refusing" -> HttpFailure(403, [text |-> Null])
    [] behaviour = "failing" -> HttpFailure(500, [text |-> Null])
    [] behaviour = "silent" -> HttpSuccess([text |-> ""])
    [] OTHER -> HttpSuccess([text |-> IF provider = "gemini" THEN "gemini text"
                                      ELSE "huggingface text"])

NoProviders == [huggingface |-> "unknown", gemini |-> "unknown"]
NoOutcome == [threw |-> FALSE, value |-> Null, error |-> NoError]

AIInit ==
  /\ huggingFaceAvailable = FALSE
  /\ geminiAvailable = FALSE
  /\ checking = "none"
  /\ providers = NoProviders
  /\ gpc = "idle"
  /\ preferredProvider = Null
  /\ generated = NoOutcome

\* generateWithHuggingFace, given the flag at the call and the answer to
\* its fetch; the catch block logs and rethrows.
generateWithHuggingFace(available, response) ==
  IF ~available THEN Threw(Error(<<"Hugging Face API is not available">>), Null)
  ELSE IF response.net = "error" THEN Threw(FetchFailed, Null)
  ELSE IF ~ok(response)
       THEN Threw(Error(<<"Hugging Face API error: ", response.statusText>>), Null)
  ELSE IF ~response.parses THEN Threw(JsonFailed(response.text), Null)
  ELSE Returned(IF Truthy(response.json.text) THEN response.json.text
                ELSE "No response generated")

\* generateWithGemini, likewise.
generateWithGemini(available, response) ==
  IF ~available THEN Threw(Error(<<"Gemini API is not available">>), Null)
  ELSE IF response.net = "error" THEN Threw(FetchFailed, Null)
  ELSE IF ~ok(response)
       THEN Threw(Error(<<"Gemini API error: ", response.statusText>>), Null)
  ELSE IF ~response.parses THEN Threw(JsonFailed(response.text), Null)
  ELSE Returned(IF Truthy(response.json.text) THEN response.json.text
                ELSE "No response generated")

\* The provider that is not the preferred one.
otherProvider(provider) == IF provider = "gemini" THEN "huggingface" ELSE "gemini"

\* this.geminiAvailable or this.huggingFaceAvailable, by provider.
availableFlag(provider) ==
  IF provider = "gemini" THEN geminiAvailable ELSE huggingFaceAvailable

\* The generation call to a provider whose flag was true when it was made,
\* once the provider has answered.
generateWith(provider) ==
  IF provider = "gemini"
  THEN generateWithGemini(TRUE, GenerationAnswer(provider, providers[provider]))
  ELSE generateWithHuggingFace(TRUE, GenerationAnswer(provider, providers[provider]))

\* The last statement of generateResponse.
NoProviderError ==
  Threw(Error(<<"No AI providers are available. Please check your API keys.">>), Null)

\* new AIService(): the field initialisers leave both flags false, and
\* checkAPIAvailability runs up to its first await, the Hugging Face test.
Construct(behaviour) ==
  /\ checking = "none"
  /\ providers' = behaviour
  /\ checking' = "huggingface"
  /\ UNCHANGED <<huggingFaceAvailable, geminiAvailable, gpc, preferredProvider, generated>>
  /\ UNCHANGED <<profileVars, healthVars, pureVars, callVars, clientVars, shareVars>>

\* The Hugging Face test settles: the flag becomes response.ok, or false
\* when the fetch failed; the Gemini test is sent.
HuggingFaceTestSettles ==
  /\ checking = "huggingface"
  /\ LET response == ProbeAnswer(providers.huggingface)
     IN  huggingFaceAvailable' = (response.net = "ok" /\ ok(response))
  /\ checking' = "gemini"
  /\ UNCHANGED <<geminiAvailable, providers, gpc, preferredProvider, generated>>
  /\ UNCHANGED <<profileVars, healthVars, pureVars, callVars, clientVars, shareVars>>

\* The Gemini test settles.
GeminiTestSettles ==
  /\ checking = "gemini"
  /\ LET response == ProbeAnswer(providers.gemini)
     IN  geminiAvailable' = (response.net = "ok" /\ ok(response))
  /\ checking' = "done"
  /\ UNCHANGED <<huggingFaceAvailable, providers, gpc, preferredProvider, generated>>
  /\ UNCHANGED <<profileVars, healthVars, pureVars, callVars, clientVars, shareVars>>

\* The fallback statements of generateResponse: the other provider is
\* called when its flag is true, else the error is thrown.
fallBack ==
  IF availableFlag(otherProvider(preferredProvider'))
  THEN gpc' = "fallback" /\ generated' = NoOutcome
  ELSE gpc' = "threw" /\ generated' = NoProviderError

\* generateResponse(prompt, preferred) is called on the constructed service
\* and runs up to its first await: the call of the preferred provider when
\* its flag is true, else the fallback statements.
GenerateResponse(preferred) ==
  /\ checking # "none"
  /\ gpc \in {"idle", "returned", "threw"}
  /\ preferredProvider' = preferred
  /\ IF availableFlag(preferred)
     THEN gpc' = "preferred" /\ generated' = NoOutcome
     ELSE fallBack
  /\ UNCHANGED <<huggingFaceAvailable, geminiAvailable, checking, providers>>
  /\ UNCHANGED <<profileVars, healthVars, pureVars, callVars, clientVars, shareVars>>

\* The preferred provider's call settles: its text is returned, or its
\* error is caught and logged and the fallback statements run.
PreferredSettles ==
  /\ gpc = "preferred"
  /\ preferredProvider' = preferredProvider
  /\ LET out == generateWith(preferredProvider)
     IN  IF ~out.threw
         THEN gpc' = "returned" /\ generated' = out
         ELSE fallBack
  /\ UNCHANGED <<huggingFaceAvailable, geminiAvailable, checking, providers>>
  /\ UNCHANGED <<profileVars, healthVars, pureVars, callVars, clientVars, shareVars>>

\* The other provider's call settles: its text is returned or its error
\* is thrown to the caller.
FallbackSettles ==
  /\ gpc = "fallback"
  /\ LET out == generateWith(otherProvider(preferredProvider))
     IN  /\ gpc' = IF out.threw THEN "threw" ELSE "returned"
         /\ generated' = out
  /\ UNCHANGED <<huggingFaceAvailable, geminiAvailable, checking, providers,
                 preferredProvider>>
  /\ UNCHANGED <<profileVars, healthVars, pureVars, callVars, clientVars, shareVars>>

AINext ==
  \/ \E behaviour \in [ProviderNames -> Behaviours] : Construct(behaviour)
  \/ HuggingFaceTestSettles
  \/ GeminiTestSettles
  \/ \E preferred \in ProviderNames : GenerateResponse(preferred)
  \/ PreferredSettles
  \/ FallbackSettles

---------------------------------------------------------------------------
(* AdvancedHuggingFaceClient.makeRequest                                   *)

\* The fields maxRetries and retryDelay (ms).
maxRetries == 3
retryDelay == 1000

\* What axios.post may settle with: a response with a status and its data,
\* or no response at all, with the error code of a timeout (ECONNABORTED)
\* or of a network failure.
PostAnswers ==
  {[status |-> st, code |-> "", data |-> <<"body", st>>] :
     st \in {200, 400, 429, 500, 503}}
  \cup {[status |-> 0, code |-> c, data |-> <<>>] : c \in {"ECONNABORTED", "ERR_NETWORK"}}

\* The validateStatus option: axios resolves with the response when it
\* holds and rejects with an error carrying the response otherwise.
validateStatus(status) == status < 500

\* axios.post resolves on this answer.
resolves(answer) == answer.code = "" /\ validateStatus(answer.status)

\* The error axios.post rejects with: its code, and the status of its
\* response (0 without a response).
axiosError(answer) ==
  [name |-> "AxiosError",
   message |-> <<IF answer.code = "" THEN "ERR_BAD_RESPONSE" ELSE answer.code,
                 answer.status>>]

canRetry_OneMore(count) == count <= maxRetries

\* retryCount < this.maxRetries.
canRetry(count) == count < maxRetries

\* error.code === 'ECONNABORTED' || error.response?.status >= 500.
retryableError(answer) == answer.code = "ECONNABORTED" \/ answer.status >= 500

\* No call yet: outcome holds no data and no error.
ClientInit ==
  /\ mpc = "idle"
  /\ retryCount = 0
  /\ posts = <<>>
  /\ delays = <<>>
  /\ outcome = Returned(<<>>)

\* makeRequest(url, data) is called: it sends the first request.
MakeRequest ==
  /\ mpc = "idle"
  /\ mpc' = "posting"
  /\ retryCount' = 0
  /\ UNCHANGED <<posts, delays, outcome>>
  /\ UNCHANGED <<profileVars, healthVars, pureVars, callVars, aiVars, shareVars>>

\* axios.post settles.  A response that passes validateStatus is returned,
\* unless it is a 503 that may be retried; an error is retried when the
\* test of the catch block holds and thrown otherwise.  A retry starts
\* with the wait retryDelay * (retryCount + 1).
PostSettles(answer) ==
  /\ mpc = "posting"
  /\ posts' = Append(posts, answer)
  /\ IF resolves(answer)
     THEN IF answer.status = 503 /\ canRetry(retryCount)
          THEN /\ mpc' = "delaying"
               /\ delays' = Append(delays, retryDelay * (retryCount + 1))
               /\ UNCHANGED outcome
          ELSE /\ mpc' = "returned"
               /\ outcome' = Returned(answer.data)
               /\ UNCHANGED delays
     ELSE IF canRetry(retryCount) /\ retryableError(answer)
          THEN /\ mpc' = "delaying"
               /\ delays' = Append(delays, retryDelay * (retryCount + 1))
               /\ UNCHANGED outcome
          ELSE /\ mpc' = "threw"
               /\ outcome' = Threw(axiosError(answer), <<>>)
               /\ UNCHANGED delays
  /\ UNCHANGED retryCount
  /\ UNCHANGED <<profileVars, healthVars, pureVars, callVars, aiVars, shareVars>>

\* The wait is over: makeRequest(url, data, retryCount + 1) sends the next
\* request, and its outcome is the outcome of the call.
DelayElapses ==
  /\ mpc = "delaying"
  /\ retryCount' = retryCount + 1
  /\ mpc' = "posting"
  /\ UNCHANGED <<posts, delays, outcome>>
  /\ UNCHANGED <<profileVars, healthVars, pureVars, callVars, aiVars, shareVars>>

ClientNext ==
  \/ MakeRequest
  \/ \E answer \in PostAnswers : PostSettles(answer)
  \/ DelayElapses

---------------------------------------------------------------------------
(* ComparisonHistoryService: share links                                   *)

\* The most comparisons saved, share links created and concurrent views.
MaxComparisons == 1
MaxShares == 2
MaxViewers == 2

\* The ShareOptions samples: a quick public share, a private link that
\* expires in 24 hours, and one without options.
ShareOptionSamples ==
  { [isPublic |-> TRUE, expiresIn |-> 0],
    [isPublic |-> FALSE, expiresIn |-> 24],
    [isPublic |-> FALSE, expiresIn |-> 0] }

\* The column defaults encode(gen_random_bytes(16), 'base64url') of the two
\* tables: random tokens, all different.
historyToken(n) == <<"history-token", n>>
shareToken(n) == <<"share-token", n>>

\* PostgREST's code for .single() on no row, and a fault of the database
\* or the network.
NotFound == "PGRST116"
Faults == {"", "500"}

\* null, as a comparison row.
NoComparison == [id |-> <<>>, share_token |-> <<>>, is_public |-> FALSE]
NoShare == [id |-> 0, comparison |-> NoComparison, view_count |-> 0]
IdleViewer ==
  [pc |-> "idle", token |-> <<>>, shareData |-> NoShare, result |-> NoComparison,
   updateError |-> ""]
IdleSharer == [pc |-> "idle", comparisonId |-> <<>>, expiresAt |-> 0]

ShareInit ==
  /\ comparison_history = {}
  /\ comparison_shares = {}
  /\ saved = {}
  /\ links = {}
  /\ sharer = IdleSharer
  /\ thrown = {}
  /\ viewers = [v \in 1..MaxViewers |-> IdleViewer]

\* .eq(column, value).single(): the row, or the error code of no row; a
\* fault yields its own error code.
single(rows, fault, empty) ==
  IF fault # "" THEN [data |-> empty, error |-> fault]
  ELSE IF rows = {} THEN [data |-> empty, error |-> NotFound]
  ELSE [data |-> CHOOSE row \in rows : TRUE, error |-> ""]

\* saveComparison: a row is inserted, not public, with an id and a token
\* of its own, and returned; an error of the insert is thrown as 'Failed to
\* save comparison'.  (A request that meets a fault changes no row.)
SaveComparison(fault) ==
  /\ Cardinality(saved) < MaxComparisons
  /\ IF fault # ""
     THEN /\ thrown' = thrown \cup {"Failed to save comparison"}
          /\ UNCHANGED <<comparison_history, saved>>
     ELSE LET n == Cardinality(saved) + 1
              data == [id |-> <<"comparison", n>>, share_token |-> historyToken(n),
                       is_public |-> FALSE]
          IN  /\ comparison_history' = comparison_history \cup {data}
              /\ saved' = saved \cup {data}
              /\ UNCHANGED thrown
  /\ UNCHANGED <<comparison_shares, links, sharer, viewers>>
  /\ UNCHANGED <<profileVars, healthVars, pureVars, callVars, aiVars, clientVars>>

\* createShareLink(comparisonId, options) is called: expiresAt is computed,
\* and the update that makes the comparison public is sent if asked,
\* otherwise the insert of the share row.
CreateShareLink(comparisonId, options) ==
  /\ sharer.pc \in {"idle", "returned", "threw"}
  /\ Cardinality(links) < MaxShares
  /\ sharer' = [pc |-> IF options.isPublic THEN "publish" ELSE "insert",
                comparisonId |-> comparisonId,
                expiresAt |-> IF options.expiresIn # 0
                              THEN Now + options.expiresIn ELSE 0]
  /\ UNCHANGED <<comparison_history, comparison_shares, saved, links, thrown,
                 viewers>>
  /\ UNCHANGED <<profileVars, healthVars, pureVars, callVars, aiVars, clientVars>>

\* The update of is_public answers.  createShareLink does not read the
\* answer: whether the comparison was made public or not, the insert of
\* the share row is sent.
PublishAnswers(fault) ==
  /\ sharer.pc = "publish"
  /\ comparison_history' =
       IF fault = ""
       THEN {IF row.id = sharer.comparisonId THEN [row EXCEPT !.is_public = TRUE]
             ELSE row : row \in comparison_history}
       ELSE comparison_history
  /\ sharer' = [sharer EXCEPT !.pc = "insert"]
  /\ UNCHANGED <<comparison_shares, saved, links, thrown, viewers>>
  /\ UNCHANGED <<profileVars, healthVars, pureVars, callVars, aiVars, clientVars>>

\* The insert of the share row answers: the row, with the defaults of its
\* table, is returned; an error (a fault, or a comparison_id that refers
\* to no comparison) is thrown as 'Failed to create share link'.
InsertAnswers(fault) ==
  /\ sharer.pc = "insert"
  /\ IF fault # "" \/ ~(\E row \in comparison_history : row.id = sharer.comparisonId)
     THEN /\ sharer' = [sharer EXCEPT !.pc = "threw"]
          /\ UNCHANGED <<comparison_shares, links>>
     ELSE LET n == Cardinality(links) + 1
              data == [id |-> n, comparison_id |-> sharer.comparisonId,
                       share_token |-> shareToken(n), view_count |-> 0,
                       expires_at |-> sharer.expiresAt]
          IN  /\ comparison_shares' = comparison_shares \cup {data}
              /\ links' = links \cup {data}
              /\ sharer' = [sharer EXCEPT !.pc = "returned"]
  /\ UNCHANGED <<comparison_history, saved, thrown, viewers>>
  /\ UNCHANGED <<profileVars, healthVars, pureVars, callVars, aiVars, clientVars>>

\* updateComparison(id, updates), for updates of is_public: the row is
\* updated and returned; an error (a fault, or no row of that id) is
\* thrown as 'Failed to update comparison'.
UpdateComparison(id, updates, fault) ==
  /\ LET answer == single({row \in comparison_history : row.id = id}, fault,
                          NoComparison)
     IN  IF answer.error # ""
         THEN /\ thrown' = thrown \cup {"Failed to update comparison"}
              /\ UNCHANGED comparison_history
         ELSE /\ comparison_history' =
                   {IF row.id = id THEN [row EXCEPT !.is_public = updates.is_public]
                    ELSE row : row \in comparison_history}
              /\ UNCHANGED thrown
  /\ UNCHANGED <<comparison_shares, saved, links, sharer, viewers>>
  /\ UNCHANGED <<profileVars, healthVars, pureVars, callVars, aiVars, clientVars>>

\* deleteComparison(id): the row is deleted, and with it the share rows
\* that refer to it (ON DELETE CASCADE); an error is thrown as 'Failed to
\* delete comparison'.
DeleteComparison(id, fault) ==
  /\ IF fault # ""
     THEN /\ thrown' = thrown \cup {"Failed to delete comparison"}
          /\ UNCHANGED <<comparison_history, comparison_shares>>
     ELSE /\ comparison_history' = {row \in comparison_history : row.id # id}
          /\ comparison_shares' =
               {share \in comparison_shares : share.comparison_id # id}
          /\ UNCHANGED thrown
  /\ UNCHANGED <<saved, links, sharer, viewers>>
  /\ UNCHANGED <<profileVars, healthVars, pureVars, callVars, aiVars, clientVars>>

\* getComparisonByShareToken(token) is called: the query of
\* comparison_history by share_token is sent.
View(v, token) ==
  /\ viewers[v].pc = "idle"
  /\ viewers' = [viewers EXCEPT ![v] = [@ EXCEPT !.pc = "history", !.token = token]]
  /\ UNCHANGED <<comparison_history, comparison_shares, saved, links, sharer, thrown>>
  /\ UNCHANGED <<profileVars, healthVars, pureVars, callVars, aiVars, clientVars>>

\* The first query answers.  Only with an error other than "no row" is
\* comparison_shares queried; otherwise data is returned, null included.
HistoryAnswers(v, fault) ==
  /\ viewers[v].pc = "history"
  /\ LET answer == single({row \in comparison_history :
                             row.share_token = viewers[v].token},
                          fault, NoComparison)
     IN  viewers' =
           [viewers EXCEPT ![v] =
              IF answer.error # "" /\ answer.error # NotFound
              THEN [@ EXCEPT !.pc = "shares"]
              ELSE [@ EXCEPT !.pc = "returned", !.result = answer.data]]
  /\ UNCHANGED <<comparison_history, comparison_shares, saved, links, sharer, thrown>>
  /\ UNCHANGED <<profileVars, healthVars, pureVars, callVars, aiVars, clientVars>>

\* The query of comparison_shares, joined with its comparison, answers:
\* no row returns null, another error is thrown as 'Failed to fetch shared
\* comparison', and a row is kept as shareData while the update is sent.
SharesAnswers(v, fault) ==
  /\ viewers[v].pc = "shares"
  /\ LET joined ==
           {[id |-> share.id, view_count |-> share.view_count,
             comparison |-> CHOOSE row \in comparison_history :
                               row.id = share.comparison_id] :
              share \in {s \in comparison_shares : s.share_token = viewers[v].token}}
         answer == single(joined, fault, NoShare)
     IN  viewers' =
           [viewers EXCEPT ![v] =
              IF answer.error = NotFound THEN [@ EXCEPT !.pc = "returned"]
              ELSE IF answer.error # "" THEN [@ EXCEPT !.pc = "threw"]
              ELSE [@ EXCEPT !.pc = "update", !.shareData = answer.data]]
  /\ UNCHANGED <<comparison_history, comparison_shares, saved, links, sharer, thrown>>
  /\ UNCHANGED <<profileVars, healthVars, pureVars, callVars, aiVars, clientVars>>

\* The update of view_count answers: unless it met a fault, view_count has
\* become the count that was read plus one.  The answer is not read: the
\* comparison that was read is returned either way.  (updateError keeps the
\* answer's error, which the code drops.)
UpdateAnswers(v, fault) ==
  /\ viewers[v].pc = "update"
  /\ comparison_shares' =
       IF fault = ""
       THEN {IF share.id = viewers[v].shareData.id
             THEN [share EXCEPT !.view_count = viewers[v].shareData.view_count + 1]
             ELSE share : share \in comparison_shares}
       ELSE comparison_shares
  /\ viewers' = [viewers EXCEPT ![v] =
                   [@ EXCEPT !.pc = "returned",
                              !.result = viewers[v].shareData.comparison,
                              !.updateError = fault]]
  /\ UNCHANGED <<comparison_history, saved, links, sharer, thrown>>
  /\ UNCHANGED <<profileVars, healthVars, pureVars, callVars, aiVars, clientVars>>

\* The tokens a visitor may present: those of the share links returned,
\* those of the comparisons, and one that was never issued.
Tokens ==
  {link.share_token : link \in links}
  \cup {row.share_token : row \in comparison_history}
  \cup {<<"unknown">>}

SharesNext ==
  \/ \E fault \in Faults : SaveComparison(fault)
  \/ \E row \in saved, options \in ShareOptionSamples :
        CreateShareLink(row.id, options)
  \/ \E fault \in Faults : PublishAnswers(fault)
  \/ \E fault \in Faults : InsertAnswers(fault)
  \/ \E row \in saved, public \in BOOLEAN, fault \in Faults :
        UpdateComparison(row.id, [is_public |-> public], fault)
  \/ \E row \in saved, fault \in Faults : DeleteComparison(row.id, fault)
  \/ \E v \in 1..MaxViewers, token \in Tokens : View(v, token)
  \/ \E v \in 1..MaxViewers, fault \in Faults : HistoryAnswers(v, fault)
  \/ \E v \in 1..MaxViewers, fault \in Faults : SharesAnswers(v, fault)
  \/ \E v \in 1..MaxViewers, fault \in Faults : UpdateAnswers(v, fault)

vars == <<profileVars, healthVars, pureVars, callVars, serviceVars>>

Init ==
  /\ ProfileInit /\ HealthInit /\ PureInit /\ CallInit
  /\ AIInit /\ ClientInit /\ ShareInit

Next == ProfileNext

\* One call of fetchCompleteProfile against every answer of the service.
Spec == Init /\ [][Next]_vars

\* One call of analyzeRepositoryHealth against every answer of the service,
\* the seven fetches settling in every order.
SpecHealth == Init /\ [][HealthNext]_vars

\* The report computation on every sample of awaited values.
SpecReport == Init /\ [][ReportNext]_vars

\* The grade of every health score up to MaxScore.
SpecGrade == Init /\ [][GradeNext]_vars

\* calculateAchievementScore and calculateCommunityScore on sample values.
SpecScores == Init /\ [][ScoresNext]_vars

\* Calls of fetchCompleteProfile and of analyzeRepositoryHealth, each
\* function called again and again, the calls of the two overlapping and
\* an analysis called while fetches of rejected ones are pending.
SpecCalls == Init /\ [][CallsNext]_vars

\* Analyses called again while fetches of rejected ones are pending.
SpecAbandon == Init /\ [][AbandonNext]_vars

\* The AI service: its availability check and calls of generateResponse.
SpecAI == Init /\ [][AINext]_vars

\* Share links: comparisons saved, links created, shared pages viewed.
SpecShares == Init /\ [][SharesNext]_vars

\* A call of makeRequest.  Every request settles (axios is given a timeout
\* of 30 s) and every wait ends (setTimeout), so a step that can be taken
\* is taken.
SpecClient == Init /\ [][ClientNext]_vars /\ WF_vars(ClientNext)

---------------------------------------------------------------------------
(* Vocabulary of the properties                                            *)

\* The sum of the numbers of a finite set of <<value, multiplicity>> pairs.
RECURSIVE WeightedSum(_)
WeightedSum(pairs) ==
  IF pairs = {} THEN 0
  ELSE LET pr == CHOOSE x \in pairs : TRUE
       IN  pr[1] * pr[2] + WeightedSum(pairs \ {pr})

\* The sum of the star counts of a repository list, value by value.
StarsOf(rs) ==
  WeightedSum({<<v, Cardinality({i \in DOMAIN rs : rs[i].stargazers_count = v})>> :
                 v \in {rs[i].stargazers_count : i \in DOMAIN rs}})

\* The sum of the fork counts of a repository list, value by value.
ForksOf(rs) ==
  WeightedSum({<<v, Cardinality({i \in DOMAIN rs : rs[i].forks_count = v})>> :
                 v \in {rs[i].forks_count : i \in DOMAIN rs}})

\* min(n / full, 1) * weight as a score number.
Capped(n, full, weight) ==
  IF n >= full THEN weight * ScoreScale ELSE (n * weight * ScoreScale) \div full

\* The repositories of a list whose description is longer than 50 characters.
Detailed(rs) ==
  {i \in DOMAIN rs : rs[i].description # NullStr /\ Len(rs[i].description) > 50}

\* The text holds the letters r, e, a, d, m, e in a row, each in either
\* case.  These are the texts whose lower case contains "readme": a code
\* unit of the lower case is one of these letters only where the text has
\* the letter itself or its capital (the two characters outside A-Z that
\* lower-case into ASCII give k and i).
SpellsReadme(text) ==
  \E k \in 0..(Len(text) - 6) :
     \A j \in 1..6 :
        \/ text[k + j] = Literals.readme[j]
        \/ text[k + j] = Literals.readme[j] - 32

\* Some non-fork repository of the list mentions "readme" in its description,
\* in whatever case.
MentionsReadme(rs) ==
  \E r \in {rs[i] : i \in DOMAIN rs} :
     /\ r.fork = FALSE
     /\ r.description # NullStr
     /\ SpellsReadme(r.description)

\* Further repository lists: one non-fork repository each, whose description
\* has characters outside ASCII around or inside the word: U+0130, which
\* lower-cases to two code units, before README; a capital sigma at the end
\* of a word before ReadMe; REA followed by the Cyrillic U+0414 for D;
\* U+1D5E5, a mathematical R, for the R; and the Greek U+0395 for the E.
OtherDescriptions ==
  { <<304>> \o Str(<<"R","E","A","D","M","E">>),
    Str(<<"T","H","E">>) \o <<931, 32>> \o Str(<<"R","e","a","d","M","e">>),
    Str(<<"R","E","A">>) \o <<1044>> \o Str(<<"M","E">>),
    <<55349, 56805>> \o Str(<<"E","A","D","M","E">>),
    Str(<<"R">>) \o <<917>> \o Str(<<"A","D","M","E">>),
    Str(<<"r","e","a","d","m">>),
    Str(<<"r","e","a","d"," ","m","e">>) }
OtherRepoLists ==
  { <<[fork |-> FALSE, stargazers_count |-> 0, forks_count |-> 0,
       language |-> Null, description |-> d]>> : d \in OtherDescriptions }

\* The entries of the settled log for one request.
AnswersTo(request) == {i \in DOMAIN settled : settled[i].request = request}

\* An answer that is a failure of the fetch: no answer at all, or a non-2xx one.
Failed(answer) ==
  \/ answer.net = "error"
  \/ (answer.net = "ok" /\ (answer.status < 200 \/ answer.status > 299))

\* An answer that is a success: a 2xx one whose body is JSON.
Succeeded(answer) ==
  /\ answer.net = "ok" /\ answer.status >= 200 /\ answer.status <= 299
  /\ answer.parses

---------------------------------------------------------------------------
(* Properties of fetchCompleteProfile                                      *)

\* C1: the totalScore of a returned profile is the weighted sum
\* min(contributions/1000,1)*15 + min(public_repos/50,1)*10 +
\* min(totalStars/500,1)*15 + min(totalForks/200,1)*10 + min(languages/10,1)*10
\* + readmeQualityScore + min(prIssues/100,1)*10 + min(followers/500,1)*5 +
\* achievementScore + communityScore, with totalStars and totalForks the sums
\* over the whole fetched list, forks included.
C1_TotalScoreFormula ==
  pc = "resolved" =>
    LET m == result.metrics
    IN  /\ m.totalStars = StarsOf(result.repos)
        /\ m.totalForks = ForksOf(result.repos)
        /\ m.totalScore =
               Capped(m.contributions, 1000, 15)
             + Capped(result.user.public_repos, 50, 10)
             + Capped(StarsOf(result.repos), 500, 15)
             + Capped(ForksOf(result.repos), 200, 10)
             + Capped(m.languages, 10, 10)
             + m.readmeQualityScore
             + Capped(m.prIssues, 100, 10)
             + Capped(result.user.followers, 500, 5)
             + m.achievementScore
             + m.communityScore

\* C1 witness: a profile is returned whose list holds a starred, forked fork,
\* with contributions and prIssues below their caps.
C1_Witness ==
  /\ pc = "resolved"
  /\ \E i \in DOMAIN result.repos :
        /\ result.repos[i].fork
        /\ result.repos[i].stargazers_count > 0
        /\ result.repos[i].forks_count > 0
  /\ result.metrics.contributions = 30
  /\ result.metrics.prIssues = 14
  /\ result.metrics.totalStars < 500

\* C2: each of the ten terms of totalScore lies between 0 and its weight
\* (15, 10, 15, 10, 10, 10, 10, 5, 5, 10), and totalScore between 0 and 100.
TermWeights == <<15, 10, 15, 10, 10, 10, 10, 5, 5, 10>>

C2_TermsCapped ==
  pc = "resolved" =>
    LET m == result.metrics
        t == scoreTerms(result.user, m.totalStars, m.totalForks, m.languages,
                        m.contributions, m.readmeQualityScore, m.prIssues,
                        m.achievementScore, m.communityScore)
    IN  /\ \A i \in 1..10 : t[i] >= 0 /\ t[i] <= TermWeights[i] * ScoreScale
        /\ m.totalScore >= 0
        /\ m.totalScore <= 100 * ScoreScale

\* C2 witness: every count is beyond the value at which its term is capped
\* and the score is exactly 100.
C2_Witness ==
  /\ pc = "resolved"
  /\ result.metrics.contributions > 1000
  /\ result.user.public_repos > 50
  /\ result.metrics.totalStars > 500
  /\ result.metrics.totalForks > 200
  /\ result.metrics.languages > 10
  /\ result.metrics.prIssues > 100
  /\ result.user.followers > 500
  /\ Cardinality(Detailed(result.repos)) > 25
  /\ result.metrics.totalScore = 100 * ScoreScale

\* C3 as stated: readmeQualityScore is 5 for a non-fork repository mentioning
\* "readme", plus min(n, 5) for the n repositories with a description longer
\* than 50 characters.
C3_Original ==
  pc = "resolved" =>
    result.metrics.readmeQualityScore =
        (IF MentionsReadme(result.repos) THEN 5 * ScoreScale ELSE 0)
      + (IF Cardinality(Detailed(result.repos)) >= 5 THEN 5 * ScoreScale
         ELSE Cardinality(Detailed(result.repos)) * ScoreScale)

\* The score of C3 as amended for a repository list.
ReadmeQualityOf(rs) ==
    (IF MentionsReadme(rs) THEN 5 * ScoreScale ELSE 0)
  + (IF Cardinality(Detailed(rs)) >= 25 THEN 5 * ScoreScale
     ELSE (Cardinality(Detailed(rs)) * ScoreScale) \div 5)

\* C3 as amended: readmeQualityScore is 5 for a non-fork repository
\* mentioning "readme", plus min(n / 5, 5) for the n repositories with a
\* description longer than 50 characters: a fifth of a point each, the full
\* +5 from 25 of them on; the score never exceeds 10.  It holds of the
\* returned profile, and of the descriptions with characters outside ASCII.
C3_ReadmeQuality ==
  pc = "resolved" =>
    /\ result.metrics.readmeQualityScore = ReadmeQualityOf(result.repos)
    /\ result.metrics.readmeQualityScore <= 10 * ScoreScale
    /\ \A rs \in OtherRepoLists :
          calculateReadmeQuality(rs) = ReadmeQualityOf(rs)

\* C3 witness: a returned profile with exactly 5 detailed descriptions, whose
\* README score is 1, and one with a fork mentioning "readme" that earns
\* nothing for it.
C3_Witness ==
  /\ pc = "resolved"
  /\ Cardinality(Detailed(result.repos)) = 5
  /\ ~MentionsReadme(result.repos)
  /\ \E i \in DOMAIN result.repos :
        result.repos[i].fork /\ result.repos[i].description = ReadmeDesc51
  /\ result.metrics.readmeQualityScore = 1 * ScoreScale

\* C4 as stated: with an empty fetched list the repository-derived metrics
\* are 0 and totalScore is the sum of the contributions, public_repos and
\* followers terms and achievementScore only.
C4_Original ==
  (pc = "resolved" /\ result.repos = <<>>) =>
    LET m == result.metrics
    IN  /\ m.totalStars = 0 /\ m.totalForks = 0 /\ m.languages = 0
        /\ m.readmeQualityScore = 0 /\ m.communityScore = 0
        /\ m.totalScore =
               Capped(m.contributions, 1000, 15)
             + Capped(result.user.public_repos, 50, 10)
             + Capped(result.user.followers, 500, 5)
             + m.achievementScore

\* C4 as amended: with an empty fetched list the repository-derived metrics
\* are 0 and totalScore is the sum of the contributions term, the
\* public_repos term (computed from the user record), the prIssues term, the
\* followers term and achievementScore.
C4_EmptyList ==
  (pc = "resolved" /\ result.repos = <<>>) =>
    LET m == result.metrics
    IN  /\ m.totalStars = 0 /\ m.totalForks = 0 /\ m.languages = 0
        /\ m.readmeQualityScore = 0 /\ m.communityScore = 0
        /\ m.totalScore =
               Capped(m.contributions, 1000, 15)
             + Capped(result.user.public_repos, 50, 10)
             + Capped(m.prIssues, 100, 10)
             + Capped(result.user.followers, 500, 5)
             + m.achievementScore

\* C4 witness: a profile with an empty list is returned after both searches
\* answered with a count and the events feed was not empty.
C4_Witness ==
  /\ pc = "resolved"
  /\ result.repos = <<>>
  /\ result.metrics.prIssues = 257
  /\ result.metrics.contributions = 30
  /\ result.metrics.achievementScore > 0

\* The fields of ComparisonMetrics.
MetricsFields ==
  {"totalStars", "totalForks", "followers", "following", "repositories",
   "languages", "contributions", "readmeQualityScore", "prIssues",
   "achievementScore", "communityScore", "profileAge", "totalScore"}

\* C5: when the user-record request is answered with 404, the call rejects
\* with the not-found error, which differs from the error of every other
\* failure, the repository request is never issued, and no profile is returned.
C5_UserNotFound ==
  \A i \in AnswersTo(UserRequest(username)) :
     (settled[i].net = "ok" /\ settled[i].status = 404) =>
        /\ pc = "rejected"
        /\ error = Error(<<"User ", username, " not found">>)
        /\ \A st \in FailureStatuses :
              error # Error(<<"GitHub API error: ", StatusText(st)>>)
        /\ error # FetchFailed
        /\ result = NoResult
        /\ \A k \in DOMAIN requests : requests[k] # ReposRequest(username)
        /\ Len(requests) = 1

\* C5 witness: the user request of fetchCompleteProfile("ghost") was answered
\* with 404 and the call has rejected.
C5_Witness ==
  /\ pc = "rejected"
  /\ settled = <<[request |-> UserRequest("ghost"), net |-> "ok", status |-> 404,
                  parses |-> TRUE]>>

\* C6: when the user-record or the repository-list fetch fails (a network
\* error or a non-2xx answer) the call rejects with the very error the fetch
\* helper raised and logged, and returns nothing; a network error is
\* fetch's own error, and a non-2xx answer other than 404 is the upstream
\* error carrying the status text, not the not-found error.
C6_MandatoryFailure ==
  \A i \in AnswersTo(UserRequest(username)) \cup AnswersTo(ReposRequest(username)) :
     Failed(settled[i]) =>
        /\ pc = "rejected"
        /\ result = NoResult
        /\ console # <<>>
        /\ error = console[Len(console)][2]
        /\ settled[i].net = "error" => error = FetchFailed
        /\ (settled[i].net = "ok" /\ settled[i].status # 404) =>
              /\ error = Error(<<"GitHub API error: ", StatusText(settled[i].status)>>)
              /\ error # Error(<<"User ", username, " not found">>)

\* C6 witness: the user record was fetched, the repository request was
\* answered with 500, and the call has rejected.
C6_Witness ==
  /\ pc = "rejected"
  /\ Len(settled) = 2
  /\ settled[2].request = ReposRequest(username)
  /\ settled[2].status = 500
  /\ user # NoUser

\* C7: once both mandatory fetches have succeeded the call never rejects,
\* whatever the events fetch and the two search fetches do; it has returned a
\* complete ProfileWithMetrics as soon as the searches have settled, and a
\* failed events fetch leaves contributions at 0.
C7_BonusFailuresTolerated ==
  \A i \in AnswersTo(ReposRequest(username)) :
     Succeeded(settled[i]) =>
        /\ pc # "rejected"
        /\ error = NoError
        /\ ( \/ prsResponse.net = "error"
             \/ issuesResponse.net = "error"
             \/ (prsResponse # Pending /\ issuesResponse # Pending) ) => pc = "resolved"
        /\ pc = "resolved" =>
              /\ result.user = user
              /\ result.repos = repos
              /\ DOMAIN result.metrics = MetricsFields
              /\ result.metrics.totalScore >= 0
        /\ \A j \in AnswersTo(EventsRequest(user.login)) :
              Failed(settled[j]) =>
                 /\ contributions = 0
                 /\ pc = "resolved" => result.metrics.contributions = 0

\* C7 witness: a profile was returned although the events fetch met a network
\* error, the PR search was answered with 403 and the issue search with a
\* body that is not JSON.
C7_Witness ==
  /\ pc = "resolved"
  /\ \E j \in AnswersTo(EventsRequest(user.login)) : settled[j].net = "error"
  /\ prsResponse.net = "ok" /\ prsResponse.status = 403
  /\ issuesResponse.net = "ok" /\ ~issuesResponse.parses
  /\ Len(result.repos) > 0

\* A search fetch that succeeded: answered, with a 2xx status.
SearchSucceeded(response) == response.net = "ok" /\ ok(response)

\* C8 as stated: prIssues is the sum of the two total counts when both
\* searches succeed, and 0 whenever either fails (a network error or a
\* non-2xx answer), also when the other one succeeded with a positive count.
C8_PrIssuesZeroOnAnyFailure ==
  pc = "resolved" =>
    result.metrics.prIssues =
      IF SearchSucceeded(prsResponse) /\ SearchSucceeded(issuesResponse)
      THEN prsResponse.json.total_count + issuesResponse.json.total_count
      ELSE 0

---------------------------------------------------------------------------
(* Properties of analyzeRepositoryHealth                                   *)

\* The fields of a report.
ReportFields ==
  {"repository", "languages", "commits", "recentCommits", "issues",
   "pullRequests", "contributors", "documentation", "activity",
   "healthScore", "healthGrade"}

\* One of the languages, commits, issues, pull-requests and contributors
\* fetches has failed.
SubFetchFailed ==
  \/ Failed(languagesP) \/ Failed(commitsP) \/ Failed(issuesP)
  \/ Failed(pullRequestsP) \/ Failed(contributorsP)

\* C9: a failure of the languages, commits, issues, pull-requests or
\* contributors fetch makes the analysis reject with that error: no report
\* is returned after one of them failed, and once the seven fetches have
\* settled with one of these five failed, the analysis has rejected.  The
\* code returns a report instead, with {} or [] in the place of the failed
\* fetch.
C9_SubFetchFailureRejects ==
  /\ SubFetchFailed => hpc # "resolved"
  /\ (SubFetchFailed /\ AllSettled) => hpc = "rejected"

\* C10: when the directory-listing fetch fails and the other six succeed,
\* the analysis does not reject: it returns a complete report whose four
\* documentation flags are false and whose healthScore adds up the other
\* five conditions only (description 10, a recent commit 15, more than one
\* contributor 10, stars 5, forks 5).
C10_ListingFailureTolerated ==
  ( /\ Failed(contentsP)
    /\ Succeeded(repositoryP) /\ Succeeded(languagesP) /\ Succeeded(commitsP)
    /\ Succeeded(issuesP) /\ Succeeded(pullRequestsP) /\ Succeeded(contributorsP) )
  => /\ hpc = "resolved"
     /\ herror = NoError
     /\ DOMAIN report = ReportFields
     /\ report.documentation =
          [hasReadme |-> FALSE, hasLicense |-> FALSE,
           hasContributing |-> FALSE, hasCodeOfConduct |-> FALSE]
     /\ report.healthScore =
            (IF repositoryP.value.description \notin {Null, ""} THEN 10 ELSE 0)
          + (IF \E i \in DOMAIN commitsP.value :
                   commitsP.value[i].date > Now - 30 * DayLen THEN 15 ELSE 0)
          + (IF Len(contributorsP.value) >= 2 THEN 10 ELSE 0)
          + (IF repositoryP.value.stargazers_count > 0 THEN 5 ELSE 0)
          + (IF repositoryP.value.forks_count > 0 THEN 5 ELSE 0)

\* C10 witness: the directory listing met a network error, the other six
\* fetches succeeded, and the report scores the five remaining conditions.
C10_Witness ==
  /\ hpc = "resolved"
  /\ contentsP.net = "error"
  /\ Succeeded(repositoryP) /\ Succeeded(languagesP) /\ Succeeded(commitsP)
  /\ Succeeded(issuesP) /\ Succeeded(pullRequestsP) /\ Succeeded(contributorsP)
  /\ report.healthScore = 45
  /\ report.documentation.hasReadme = FALSE

\* C11: when the repository-record request is answered with 404 the
\* analysis rejects with the not-found error, and when it is answered with
\* another non-2xx status it rejects with the upstream error carrying the
\* status text; no report is returned, whatever the other six fetches have
\* got so far and in whatever order the seven settle.
C11_RepositoryFailureRejects ==
  (repositoryP.net = "ok" /\ Failed(repositoryP)) =>
     /\ hpc = "rejected"
     /\ report = NoReport
     /\ repositoryP.status = 404 =>
          /\ herror = Error(<<"Repository ", target[1], "/", target[2], " not found">>)
          /\ \A st \in FailureStatuses :
                herror # Error(<<"GitHub API error: ", StatusText(st)>>)
     /\ repositoryP.status # 404 =>
          /\ herror = Error(<<"GitHub API error: ", StatusText(repositoryP.status)>>)
          /\ herror # Error(<<"Repository ", target[1], "/", target[2], " not found">>)
     /\ <<"Error analyzing repository health:", herror>> \in hlogged

\* C11 witness: the repository-record request was answered with 404 while
\* the commits and contributors fetches had succeeded, the issues fetch had
\* failed and the directory listing was still pending; the call has rejected.
C11_Witness ==
  /\ hpc = "rejected"
  /\ repositoryP.status = 404
  /\ Succeeded(commitsP) /\ Succeeded(contributorsP)
  /\ Failed(issuesP)
  /\ contentsP.state = "pending"

---------------------------------------------------------------------------
(* Properties of the health score and grade                                *)

\* A date is after thirty days before a clock reading when the local clock
\* read, at that date, later than it reads now less thirty days.
AfterThirtyDaysAgo(date, clock) ==
  localTime(clock.zone, date) > localTime(clock.zone, clock.now) - 30 * DayLen

\* The current time for the i-th commit of a page: the clock reading taken
\* when the analysis looks at that commit.
ReadingFor(clock, i) == [now |-> clock.readings[i], zone |-> clock.zone]

\* A date is within the last thirty days of a clock reading when it is
\* after thirty days before the reading and not after the reading.
WithinLastThirtyDays(date, clock) ==
  AfterThirtyDaysAgo(date, clock) /\ date <= clock.now

\* n points for a condition that holds.
Points(holds, n) == IF holds THEN n ELSE 0

\* The nine conditions of the health score for the awaited values v, as the
\* report rep computed from them shows them.
Conditions(v, rep) ==
  << rep.documentation.hasReadme,
     rep.documentation.hasLicense,
     rep.documentation.hasContributing,
     rep.documentation.hasCodeOfConduct,
     v.repository.description \notin {Null, ""},
     \E i \in DOMAIN v.commits :
        AfterThirtyDaysAgo(v.commits[i].date, ReadingFor(v.clock, i)),
     Len(v.contributors) > 1,
     v.repository.stargazers_count > 0,
     v.repository.forks_count > 0 >>

\* The report of the values v.
ReportOf(v) ==
  healthReport(v.repository, v.languages, v.commits, v.issues, v.pullRequests,
               v.contributors, v.contents, v.clock.readings, v.clock.zone)

\* C12: healthScore is the sum of the points of the conditions that hold
\* (README 20, LICENSE 15, CONTRIBUTING 10, CODE_OF_CONDUCT 10, non-empty
\* description 10, a recent commit 15, more than one contributor 10,
\* stars 5, forks 5); it lies between 0 and 100 and is 100 exactly when all
\* nine conditions hold.
C12_HealthScoreSum ==
  computed # NoReport =>
    LET c == Conditions(values, computed)
    IN  /\ computed.healthScore =
               Points(c[1], 20) + Points(c[2], 15) + Points(c[3], 10)
             + Points(c[4], 10) + Points(c[5], 10) + Points(c[6], 15)
             + Points(c[7], 10) + Points(c[8], 5) + Points(c[9], 5)
        /\ computed.healthScore \in 0..100
        /\ computed.healthScore = 100 <=> (\A k \in 1..9 : c[k])

\* C12 witness: a report computed from values meeting all nine conditions,
\* scored 100.
C12_Witness ==
  /\ computed # NoReport
  /\ \A k \in 1..9 : Conditions(values, computed)[k]
  /\ computed.healthScore = 100

\* The values that differ from v in one way that can turn one condition on:
\* one more documentation file, a description, stars, forks, one more
\* commit five days old, one or two more contributors.
Changes(v) ==
  {[v EXCEPT !.contents = @ \o <<DocFiles[k]>>] : k \in DOMAIN DocFiles}
  \cup {[v EXCEPT !.repository.description = "A sample"],
        [v EXCEPT !.repository.stargazers_count = 5],
        [v EXCEPT !.repository.forks_count = 3],
        [v EXCEPT !.commits = <<[date |-> v.clock.now - 5 * DayLen]>> \o @,
                  !.clock.readings = <<v.clock.now>> \o @],
        [v EXCEPT !.contributors = @ \o <<[login |-> "hubot"]>>],
        [v EXCEPT !.contributors = @ \o <<[login |-> "hubot"], [login |-> "monalisa"]>>]}

\* The changes of v under which exactly one condition goes from false to
\* true and the other eight stay as they are.
Upgrades(v) ==
  LET c == Conditions(v, ReportOf(v))
  IN  {w \in Changes(v) :
         LET d == Conditions(w, ReportOf(w))
         IN  \E k \in 1..9 :
                /\ ~c[k] /\ d[k]
                /\ \A j \in (1..9) \ {k} : c[j] = d[j]}

\* C13: healthScore is monotone in each condition: turning one condition
\* from false to true, the others fixed, never lowers the score.
C13_HealthScoreMonotone ==
  computed # NoReport =>
    \A w \in Upgrades(values) : ReportOf(w).healthScore >= computed.healthScore

\* C13 witness: a report computed from values meeting some conditions but
\* neither the contributors one nor the README one, each of which can be
\* turned on alone.
C13_Witness ==
  /\ computed # NoReport
  /\ computed.healthScore = 50
  /\ ~computed.documentation.hasReadme
  /\ Len(values.contributors) = 1
  /\ Cardinality(Upgrades(values)) >= 2

\* C14: healthGrade is A iff healthScore >= 80, B iff 60 <= healthScore < 80,
\* C iff 40 <= healthScore < 60 and D iff healthScore < 40; so 80, 60, 40 and
\* 39 are graded A, B, C and D, and 79 is graded B.
C14_GradeThresholds ==
  graded # NoGrade =>
    LET n == graded.healthScore
        g == graded.healthGrade
    IN  /\ g \in {"A", "B", "C", "D"}
        /\ g = "A" <=> n >= 80
        /\ g = "B" <=> (60 <= n /\ n < 80)
        /\ g = "C" <=> (40 <= n /\ n < 60)
        /\ g = "D" <=> n < 40
        /\ n = 80 => g = "A"
        /\ n = 79 => g = "B"
        /\ n = 60 => g = "B"
        /\ n = 40 => g = "C"
        /\ n = 39 => g = "D"

\* C14 witness: the score 79 has been graded, one below the A threshold.
C14_Witness == graded = [healthScore |-> 79, healthGrade |-> "B"]

\* The items of an issues list that carry a pull-request marker.
Marked(items) == {i \in DOMAIN items : items[i].pull_request}

\* C15: an item of the issues list that carries a pull-request marker is
\* counted neither in issues.open nor in issues.closed: issues.open is the
\* number of items with state open and no marker, issues.closed the number
\* with state closed and no marker.
C15_PullRequestsNotIssues ==
  computed # NoReport =>
    LET items == values.issues
        plain == DOMAIN items \ Marked(items)
    IN  /\ computed.issues.open =
             Cardinality({i \in plain : items[i].state = "open"})
        /\ computed.issues.closed =
             Cardinality({i \in plain : items[i].state = "closed"})
        /\ computed.issues.open + computed.issues.closed
             <= Len(items) - Cardinality(Marked(items))

\* C15 witness: a report for an issues list of two plain open items and one
\* closed item with a marker: 2 open, 0 closed, 3 in total.
C15_Witness ==
  /\ computed # NoReport
  /\ Cardinality(Marked(values.issues)) = 1
  /\ computed.issues = [open |-> 2, closed |-> 0, total |-> 3]

---------------------------------------------------------------------------
(* Further properties of fetchCompleteProfile                              *)

\* The language values of a repository list.
LanguageValues(rs) == {rs[i].language : i \in DOMAIN rs}

\* C16: the languages metric is the number of distinct non-null language
\* values of the fetched page (the service answers a language name or
\* null); it is at most the page length, which is at most 100, and it is 0
\* when every language is null.
C16_LanguagesMetric ==
  pc = "resolved" =>
    /\ result.metrics.languages =
         Cardinality(LanguageValues(result.repos) \ {Null})
    /\ result.metrics.languages <= Len(result.repos)
    /\ Len(result.repos) <= 100
    /\ LanguageValues(result.repos) \subseteq {Null} => result.metrics.languages = 0

\* C16 witness: a returned profile whose page is full: 50 repositories
\* without a language, 12 each in a language of its own and 38 in
\* TypeScript count 13 languages.
C16_Witness ==
  /\ pc = "resolved"
  /\ Len(result.repos) = 100
  /\ Cardinality({i \in DOMAIN result.repos : result.repos[i].language = Null}) = 50
  /\ Cardinality({i \in DOMAIN result.repos : result.repos[i].language = "TypeScript"}) = 38
  /\ result.metrics.languages = 13

---------------------------------------------------------------------------
(* Properties of calls one after another and side by side                  *)

\* No request occurs twice in a request log.
NoRepeat(log) == \A i, j \in DOMAIN log : i # j => log[i] # log[j]

\* C17: each call requests each remote resource at most once: its request
\* log holds no request twice, at most the five requests of a profile and
\* exactly the seven of an analysis (no further page), also when the call
\* starts while fetches of analyses that have returned are pending; after a
\* failed answer nothing is requested again, and the failure is reported
\* (user, repository list, repository record) or degraded (events,
\* directory listing) after that single attempt.
C17_SingleAttempt ==
  /\ NoRepeat(requests) /\ Len(requests) <= 5
  /\ NoRepeat(hrequests) /\ Len(hrequests) \in {0, 7}
  /\ \A i \in DOMAIN settled :
        Failed(settled[i]) =>
          /\ Cardinality({k \in DOMAIN requests : requests[k] = settled[i].request}) = 1
          /\ i <= 2 => (pc = "rejected" /\ Len(requests) = i)
          /\ i = 3 => (pc # "rejected" /\ contributions = 0)
  /\ Failed(hreceived[1]) => hpc = "rejected"
  /\ Failed(hreceived[7]) => (contentsP.state = "fulfilled" /\ contentsP.value = <<>>)

\* C17 witness: an analysis rejected on its repository record has returned
\* with fetches pending; with one of them pending still, the next analysis,
\* whose directory listing failed, has resolved with seven requests, and a
\* profile call rejected on its repository list has issued two requests.
C17_Witness ==
  /\ analyses = 2
  /\ \E k \in 2..7 : abandoned[k] > 0
  /\ Failed(hreceived[7])
  /\ hpc = "resolved"
  /\ Len(hrequests) = 7
  /\ pc = "rejected"
  /\ Len(requests) = 2

---------------------------------------------------------------------------
(* Properties of the achievement and community scores                      *)

\* The five conditions of the achievement score, as the record u meets them.
Achievements(u) ==
  [repositories |-> u.public_repos > 10, followers |-> u.followers > 50,
   gists |-> u.public_gists > 5,
   bio |-> u.bio # Null /\ u.bio # "", blog |-> u.blog # Null /\ u.blog # ""]

\* C22: achievementScore is the number of the five conditions
\* (public_repos > 10, followers > 50, public_gists > 5, non-empty bio,
\* non-empty blog) the user record meets, an integer from 0 to 5; records
\* that meet the same conditions have the same score, and the values 10, 50
\* and 5 themselves earn no point.
C22_AchievementCount ==
  scored.of = "achievementScore" =>
    LET u == scored.user
        a == Achievements(u)
    IN  /\ scored.score = Num(Cardinality({c \in DOMAIN a : a[c]}))
        /\ scored.score \in {Num(k) : k \in 0..5}
        /\ \A other \in SampleUsers :
              Achievements(other) = a => calculateAchievementScore(other) = scored.score
        /\ (u.public_repos = 10 /\ u.followers = 50 /\ u.public_gists = 5)
             => scored.score <= Num(2)

\* C22 witness: a record at the three boundary values, with a bio and a
\* blog, has been scored 2.
C22_Witness ==
  /\ scored.of = "achievementScore"
  /\ scored.user.public_repos = 10
  /\ scored.user.followers = 50
  /\ scored.user.public_gists = 5
  /\ scored.user.bio = "dev"
  /\ scored.user.blog = "https://example.org"
  /\ scored.score = Num(2)

\* The numbers of forks and of popular repositories of a page.
ForkCount(rs) == Cardinality({i \in DOMAIN rs : rs[i].fork = TRUE})
PopularCount(rs) == Cardinality({i \in DOMAIN rs : rs[i].stargazers_count > 10})

\* C23: communityScore is min(f/10, 5) + min(p/5, 5) for the f forks and
\* the p repositories with more than 10 stars of the page; it lies between
\* 0 and 10, and a repository that is both counts in f and in p.
C23_CommunityScore ==
  scored.of = "communityScore" =>
    LET f == ForkCount(scored.repos)
        p == PopularCount(scored.repos)
    IN  /\ scored.score = Min(Div(f, 10), Num(5)) + Min(Div(p, 5), Num(5))
        /\ scored.score >= 0
        /\ scored.score <= Num(10)

\* C23 witness: a page of five repositories, each a fork with more than 10
\* stars, has been scored 5/10 + 5/5.
C23_Witness ==
  /\ scored.of = "communityScore"
  /\ Len(scored.repos) = 5
  /\ \A i \in DOMAIN scored.repos :
        scored.repos[i].fork /\ scored.repos[i].stargazers_count > 10
  /\ scored.score = Div(5, 10) + Num(1)

---------------------------------------------------------------------------
(* Further properties of the report                                        *)

\* The commits of a page authored within the last thirty days of the clock
\* reading.
RecentOnes(commits, clock) ==
  {i \in DOMAIN commits :
     WithinLastThirtyDays(commits[i].date, ReadingFor(clock, i))}

\* C24: in every report activity.recentCommits is the number of commits of
\* the page authored within the last 30 days (thirty local days: 720 hours,
\* or from 718 to 722 when the zone changed its offset in between),
\* activity.isActive is true iff that number is not 0, and healthScore holds
\* the 15 activity points iff isActive is true.  The code counts every commit
\* dated after thirty days ago, one dated after the current time included.
C24_ActivityFromRecentCommits ==
  computed # NoReport =>
    LET c == Conditions(values, computed)
    IN  /\ computed.activity.recentCommits =
              Cardinality(RecentOnes(values.commits, values.clock))
        /\ computed.activity.isActive = (computed.activity.recentCommits # 0)
        /\ computed.healthScore =
               Points(computed.activity.isActive, 15)
             + Points(c[1], 20) + Points(c[2], 15) + Points(c[3], 10)
             + Points(c[4], 10) + Points(c[5], 10) + Points(c[7], 10)
             + Points(c[8], 5) + Points(c[9], 5)

\* The name, lower-cased, contains the (lower-case) keyword: at some offset
\* each character of the name is the keyword's, or its upper-case ASCII
\* letter.  No other character lower-cases into a keyword: U+212A gives k
\* and U+0130 gives i followed by U+0307, and no keyword has either.
NameContains(name, keyword) ==
  \E k \in 0..(Len(name) - Len(keyword)) :
     \A j \in 1..Len(keyword) :
        \/ name[k + j] = keyword[j]
        \/ 65 <= name[k + j] /\ name[k + j] <= 90 /\ name[k + j] + 32 = keyword[j]

\* Some entry of the listing has a name containing one of the keywords.
Documents(listing, keywords) ==
  \E i \in DOMAIN listing : \E w \in keywords : NameContains(listing[i].name, w)

\* The four documentation flags of a listing, from the keywords.
FlagsOf(listing) ==
  [hasReadme |-> Documents(listing, {Literals.readme}),
   hasLicense |-> Documents(listing, {Literals.license,
                                      Literals.licence}),
   hasContributing |->
     Documents(listing, {Literals.contributing}),
   hasCodeOfConduct |->
     Documents(listing, {Literals.code_of_conduct,
                         Literals.code_hyphen_of_conduct})]

\* Further listings: the other spellings, a keyword inside a longer name,
\* near misses, and names with characters outside ASCII (U+00C9 before
\* README, U+0130 for the I of LICENSE, the full-width G U+FF27 for the G
\* of CONTRIBUTING).
OtherListings ==
  ContentsListings
  \cup { << [name |-> Str(<<"U","N","L","I","C","E","N","S","E","D">>)] >>,
         << [name |-> Str(<<"l","i","c","e","n","s">>)],
            [name |-> Str(<<"r","e","a","d","_","m","e">>)],
            [name |-> Str(<<"c","o","d","e"," ","o","f"," ","c","o","n","d","u","c","t">>)] >>,
         << [name |-> <<201>> \o Str(<<"R","E","A","D","M","E">>)],
            [name |-> Str(<<"L">>) \o <<304>> \o Str(<<"C","E","N","S","E">>)],
            [name |-> Str(<<"C","O","N","T","R","I","B","U","T","I","N">>) \o <<65319>>] >> }

\* C25: each documentation flag of a report is true iff some entry of the
\* root listing has a name that, lower-cased, contains the flag's keyword
\* ("readme"; "license" or "licence"; "contributing"; "code_of_conduct" or
\* "code-of-conduct"); with an empty listing all four are false.
C25_DocumentationFlags ==
  computed # NoReport =>
    /\ computed.documentation = FlagsOf(values.contents)
    /\ \A listing \in OtherListings \cup {<<>>} :
          ReportOf([values EXCEPT !.contents = listing]).documentation = FlagsOf(listing)
    /\ \A flag \in DOMAIN FlagsOf(<<>>) :
          ~ReportOf([values EXCEPT !.contents = <<>>]).documentation[flag]

\* C25 witness: a report on a root directory holding Licence,
\* code-of-conduct.md and src: hasLicense and hasCodeOfConduct alone.
C25_Witness ==
  /\ computed # NoReport
  /\ Len(values.contents) = 3
  /\ computed.documentation =
       [hasReadme |-> FALSE, hasLicense |-> TRUE,
        hasContributing |-> FALSE, hasCodeOfConduct |-> TRUE]

\* C28: in every report issues.total is the length of the issues list, so
\* issues.open + issues.closed + the number of items with a pull-request
\* marker = issues.total, and issues.open + issues.closed = issues.total
\* only without such items; pullRequests.open + pullRequests.closed =
\* pullRequests.total when every pull request is open or closed.
C28_Totals ==
  computed # NoReport =>
    LET marked == Cardinality(Marked(values.issues))
        settledPRs == \A i \in DOMAIN values.pullRequests :
                         values.pullRequests[i].state \in {"open", "closed"}
    IN  /\ computed.issues.total = Len(values.issues)
        /\ computed.issues.open + computed.issues.closed + marked = computed.issues.total
        /\ (computed.issues.open + computed.issues.closed = computed.issues.total)
             => marked = 0
        /\ computed.pullRequests.total = Len(values.pullRequests)
        /\ settledPRs =>
             computed.pullRequests.open + computed.pullRequests.closed
               = computed.pullRequests.total

\* C28 witness: a report on an issues list of four items, two of them pull
\* requests: total 4, open 1, closed 1; and three pull requests.
C28_Witness ==
  /\ computed # NoReport
  /\ computed.issues = [open |-> 1, closed |-> 1, total |-> 4]
  /\ Cardinality(Marked(values.issues)) = 2
  /\ computed.pullRequests = [open |-> 1, closed |-> 2, total |-> 3]

---------------------------------------------------------------------------
(* The order of requests and answers                                       *)

\* C26: analyzeRepositoryHealth issues all seven requests, each for the
\* repository asked about, before any answer arrives and whatever the
\* answers are; it returns a report only after all seven fetches have
\* settled, and the report is the one the seven answers determine, in
\* whatever order they arrived (and whichever hour the clock reads while
\* the commits are filtered: no commit of these pages is within an hour of
\* the thirty-day limit).
C26_FanOutFanIn ==
  /\ hpc # "idle" =>
       /\ Len(hrequests) = 7
       /\ \A j, k \in DOMAIN hrequests :
             /\ j # k => hrequests[j] # hrequests[k]
             /\ hrequests[k][3] = target[1]
             /\ hrequests[k][5] = target[2]
  /\ hpc = "resolved" =>
       /\ AllSettled
       /\ \A k \in 1..7 : hreceived[k] # Pending
       /\ \A readings \in ClockReadings(Now, Len(commitsP.value)) :
             report = analyzeRepositoryHealth(target[1], target[2], hreceived,
                                              readings).report

\* C26 witness: an analysis has resolved after its seven fetches settled,
\* the directory listing among them, with the full score.
C26_Witness ==
  /\ hpc = "resolved"
  /\ AllSettled
  /\ Len(hrequests) = 7
  /\ Len(contentsP.value) = 5
  /\ report.healthScore = 100

\* C27: fetchCompleteProfile issues its requests in the order user record,
\* repository list, events, the two searches; the repository list only
\* after the user record was answered with success, the events and search
\* requests only after both were; after a failed user-record or
\* repository-list answer the call is rejected and has issued nothing more.
C27_RequestsInSequence ==
  pc # "idle" =>
    /\ Len(requests) \in {1, 2, 3, 5}
    /\ requests[1] = UserRequest(username)
    /\ Len(requests) >= 2 =>
         /\ requests[2] = ReposRequest(username)
         /\ Len(settled) >= 1 /\ Succeeded(settled[1])
         /\ settled[1].request = requests[1]
    /\ Len(requests) >= 3 =>
         /\ requests[3] = EventsRequest(user.login)
         /\ Len(settled) >= 2 /\ Succeeded(settled[1]) /\ Succeeded(settled[2])
         /\ settled[2].request = requests[2]
    /\ Len(requests) = 5 =>
         /\ requests[4] = PrSearchRequest(user.login)
         /\ requests[5] = IssueSearchRequest(user.login)
         /\ Len(settled) >= 3
    /\ \A i \in DOMAIN settled :
          (i <= 2 /\ Failed(settled[i])) => (pc = "rejected" /\ Len(requests) = i)

\* C27 witness: the user record was answered with success and the
\* repository list with a failure: the call is rejected with two requests.
C27_Witness ==
  /\ pc = "rejected"
  /\ Len(settled) = 2
  /\ Succeeded(settled[1])
  /\ Failed(settled[2])
  /\ requests = <<UserRequest(username), ReposRequest(username)>>

---------------------------------------------------------------------------
(* Properties of the AI service                                            *)

\* The provider answers the availability test and its generation call
\* returns a text.
Responds(provider) == providers[provider] \in {"serving", "silent"}

\* The text its generation call returns.
TextOf(provider) ==
  IF providers[provider] = "silent" THEN "No response generated"
  ELSE IF provider = "gemini" THEN "gemini text" ELSE "huggingface text"

\* C21 as stated: for every call of generateResponse, also one made right
\* after the service is constructed: when the preferred provider is
\* unavailable or its call fails while the other provider is available and
\* its call succeeds, the other provider's text is returned; and an error
\* is thrown only when no provider produces a response.
C21_ProviderSwitch ==
  gpc \in {"returned", "threw"} =>
    LET other == otherProvider(preferredProvider)
    IN  /\ (~Responds(preferredProvider) /\ Responds(other))
             => (gpc = "returned" /\ generated.value = TextOf(other))
        /\ gpc = "threw" => \A provider \in ProviderNames : ~Responds(provider)

---------------------------------------------------------------------------
(* Properties of AdvancedHuggingFaceClient.makeRequest                     *)

\* The number of requests the call has sent.
Sent == Len(posts) + (IF mpc = "posting" THEN 1 ELSE 0)

\* A timeout, or a response with a 5xx status.
TimeoutOrServerError(answer) ==
  answer.code = "ECONNABORTED" \/ (answer.status >= 500 /\ answer.status <= 599)

\* The answers after which another request was sent or is waited for.
Retried ==
  {i \in DOMAIN posts : i < Len(posts) \/ mpc \in {"posting", "delaying"}}

\* What holds at every moment of a call of makeRequest.
RetryDiscipline ==
  /\ Sent <= 4
  /\ \A i \in Retried :
        /\ TimeoutOrServerError(posts[i])
        /\ ~(posts[i].status >= 400 /\ posts[i].status <= 499)
  /\ Len(delays) = Cardinality(Retried)
  /\ \A k \in DOMAIN delays : delays[k] = 1000 * k
  /\ mpc = "returned" =>
       /\ posts[Len(posts)].code = ""
       /\ outcome = [threw |-> FALSE, value |-> posts[Len(posts)].data, error |-> NoError]
  /\ mpc = "threw" =>
       /\ outcome.threw
       /\ outcome.error.message[2] = posts[Len(posts)].status
       /\ posts[Len(posts)].code # "" => outcome.error.message[1] = posts[Len(posts)].code

\* C30: makeRequest always terminates: a call that has started ends by
\* returning or throwing.  It sends at most maxRetries + 1 = 4 requests,
\* sends another request only after a timeout or a 5xx response and never
\* after a 4xx one, waits retryDelay * n before the n-th retry, and ends
\* by returning the data of the last response or throwing the last error.
C30_BoundedRetries ==
  /\ []RetryDiscipline
  /\ (mpc \in {"posting", "delaying"}) ~> (mpc \in {"returned", "threw"})

\* C30 witness: four requests were answered 503, a timeout, 500 and 503;
\* the waits were 1000, 2000 and 3000 ms, and the last error is thrown.
C30_Witness ==
  /\ mpc = "threw"
  /\ Len(posts) = 4
  /\ posts[1].status = 503
  /\ posts[2].code = "ECONNABORTED"
  /\ posts[3].status = 500
  /\ posts[4].status = 503
  /\ delays = <<1000, 2000, 3000>>

---------------------------------------------------------------------------
(* Properties of share links                                               *)

\* The views of a share link that have returned.
ViewsOf(link) ==
  {v \in DOMAIN viewers :
     viewers[v].pc = "returned" /\ viewers[v].token = link.share_token}

\* No view is under way.
NoViewUnderWay ==
  \A v \in DOMAIN viewers : viewers[v].pc \in {"idle", "returned", "threw"}

\* C29 as stated: share links round-trip.  While the comparison of a row
\* that createShareLink returned exists, a view with the row's share_token
\* returns that comparison, not null; and each such view adds exactly 1 to
\* the row's view_count, also when two views run at the same time (a view
\* whose update the database refused aside).
C29_ShareLinkRoundTrip ==
  \A link \in links :
     (\E row \in comparison_history : row.id = link.comparison_id) =>
        /\ \A v \in ViewsOf(link) :
              /\ viewers[v].result # NoComparison
              /\ viewers[v].result.id = link.comparison_id
        /\ NoViewUnderWay =>
             \A share \in comparison_shares :
                share.id = link.id =>
                  share.view_count =
                    Cardinality({v \in ViewsOf(link) : viewers[v].updateError = ""})


=============================================================================
